---------------------------- MODULE Spec2Model ----------------------------
(***************************************************************************)
(* Model of MathLibTS: Vector2, Vector3 and MathHelper.                    *)
(*                                                                         *)
(* A JavaScript number is an IEEE-754 binary64 value and a vector stores   *)
(* its components in a Float32Array.  Both are modelled bit-exactly: a     *)
(* number is a record [c, s, m, e] that stands for (-1)^s * m * 2^e, where *)
(* the mantissa m is an arbitrary-precision natural (a little-endian       *)
(* sequence of limbs, since TLC integers are 32 bits wide) and every       *)
(* arithmetic operator rounds to nearest-even the way the hardware does.   *)
(***************************************************************************)
EXTENDS Integers, Sequences, FiniteSets, TLC

VARIABLES heap, last, fuel

vars == <<heap, last, fuel>>

\* a local: body(v), with v computed once
Bind(v, body(_)) == body(v)

(***************************************************************************)
(* Arbitrary-precision naturals: the mantissas of IEEE-754 values.         *)
(* A natural is a sequence of limbs, least significant first, without a    *)
(* most significant zero limb; << >> is zero.                              *)
(***************************************************************************)
Limb == 2^15

RECURSIVE NatTrim(_)
NatTrim(a) ==
  IF Len(a) = 0 THEN a
  ELSE IF a[Len(a)] = 0 THEN NatTrim(SubSeq(a, 1, Len(a) - 1))
  ELSE a

RECURSIVE NatOfInt(_)
NatOfInt(n) ==
  IF n = 0 THEN << >> ELSE <<n % Limb>> \o NatOfInt(n \div Limb)

NatAt(a, i) == IF i <= Len(a) THEN a[i] ELSE 0

RECURSIVE NatCmpFrom(_, _, _)
NatCmpFrom(a, b, i) ==
  IF i = 0 THEN 0
  ELSE IF a[i] < b[i] THEN -1
  ELSE IF a[i] > b[i] THEN 1
  ELSE NatCmpFrom(a, b, i - 1)

\* -1, 0 or 1 as a < b, a = b or a > b
NatCmp(a, b) ==
  IF Len(a) < Len(b) THEN -1
  ELSE IF Len(a) > Len(b) THEN 1
  ELSE NatCmpFrom(a, b, Len(a))

RECURSIVE NatAddFrom(_, _, _, _)
NatAddFrom(a, b, i, carry) ==
  IF i > Len(a) /\ i > Len(b)
  THEN (IF carry = 0 THEN << >> ELSE <<carry>>)
  ELSE LET t == NatAt(a, i) + NatAt(b, i) + carry
       IN  <<t % Limb>> \o NatAddFrom(a, b, i + 1, t \div Limb)

NatAdd(a, b) == NatAddFrom(a, b, 1, 0)

RECURSIVE NatSubFrom(_, _, _, _)
NatSubFrom(a, b, i, borrow) ==
  IF i > Len(a) THEN << >>
  ELSE LET t == a[i] - NatAt(b, i) - borrow
       IN  IF t < 0
           THEN <<t + Limb>> \o NatSubFrom(a, b, i + 1, 1)
           ELSE <<t>> \o NatSubFrom(a, b, i + 1, 0)

\* a - b for a >= b
NatSub(a, b) == NatTrim(NatSubFrom(a, b, 1, 0))

RECURSIVE NatMulSmallFrom(_, _, _, _)
NatMulSmallFrom(a, d, i, carry) ==
  IF i > Len(a)
  THEN (IF carry = 0 THEN << >> ELSE <<carry>>)
  ELSE LET t == a[i] * d + carry
       IN  <<t % Limb>> \o NatMulSmallFrom(a, d, i + 1, t \div Limb)

\* a * d for a limb-sized d
NatMulSmall(a, d) == IF d = 0 THEN << >> ELSE NatMulSmallFrom(a, d, 1, 0)

RECURSIVE NatMulFrom(_, _, _)
NatMulFrom(a, b, j) ==
  IF j > Len(b) THEN << >>
  ELSE NatAdd(NatMulSmall(a, b[j]), <<0>> \o NatMulFrom(a, b, j + 1))

NatMul(a, b) ==
  IF Len(a) = 0 \/ Len(b) = 0 THEN << >> ELSE NatTrim(NatMulFrom(a, b, 1))

RECURSIVE NatDivSmallFrom(_, _, _, _)
NatDivSmallFrom(a, d, i, rem) ==
  IF i = 0 THEN << >>
  ELSE LET t == rem * Limb + a[i]
       IN  NatDivSmallFrom(a, d, i - 1, t % d) \o <<t \div d>>

\* a \div d for a limb-sized d > 0
NatDivSmall(a, d) == NatTrim(NatDivSmallFrom(a, d, Len(a), 0))

Zeros(n) == [i \in 1..n |-> 0]

\* a * 2^k
NatShl(a, k) ==
  IF Len(a) = 0 THEN a
  ELSE Zeros(k \div 15) \o NatMulSmall(a, 2^(k % 15))

\* a \div 2^k
NatShr(a, k) ==
  IF k \div 15 >= Len(a) THEN << >>
  ELSE NatDivSmall(SubSeq(a, (k \div 15) + 1, Len(a)), 2^(k % 15))

RECURSIVE IntBitLen(_)
IntBitLen(n) == IF n = 0 THEN 0 ELSE 1 + IntBitLen(n \div 2)

\* number of significant bits of a
NatBitLen(a) ==
  IF Len(a) = 0 THEN 0 ELSE 15 * (Len(a) - 1) + IntBitLen(a[Len(a)])

NatIsOdd(a) == Len(a) > 0 /\ a[1] % 2 = 1

RECURSIVE IntTrailingZeros(_)
IntTrailingZeros(n) == IF n % 2 = 1 THEN 0 ELSE 1 + IntTrailingZeros(n \div 2)

RECURSIVE NatTrailingZerosFrom(_, _)
NatTrailingZerosFrom(a, i) ==
  IF a[i] = 0 THEN 15 + NatTrailingZerosFrom(a, i + 1)
  ELSE IntTrailingZeros(a[i])

\* number of trailing zero bits of a > 0
NatTrailingZeros(a) == NatTrailingZerosFrom(a, 1)


RECURSIVE NatDigitFix(_, _, _)
\* the largest q' <= q with q' * d <= cur
NatDigitFix(cur, d, q) ==
  IF NatCmp(NatMulSmall(d, q), cur) <= 0 THEN q
  ELSE NatDigitFix(cur, d, q - 1)

\* cur \div d, a single limb, for cur < d * Limb and d with its top bit set:
\* the estimate from the leading limbs is at most 2 too large (Knuth 4.3.1 D)
NatDigit(cur, d) ==
  LET k   == Len(d)
      est == (NatAt(cur, k + 1) * Limb + NatAt(cur, k)) \div d[k]
  IN  NatDigitFix(cur, d, IF est > Limb - 1 THEN Limb - 1 ELSE est)

RECURSIVE NatDivModFrom(_, _, _, _, _)
\* long division, one limb of n at a time from the most significant; quot
\* holds the limbs of the quotient found so far (Len(quot) >= 0 is always
\* true: it has TLC evaluate quot at each step instead of all at the end)
NatDivModFrom(n, d, i, rem, quot) ==
  IF i = 0 THEN <<quot, rem>>
  ELSE IF Len(rem) + 1 < Len(d)
  THEN NatDivModFrom(n, d, i - 1, NatTrim(<<n[i]>> \o rem), <<0>> \o quot)
  ELSE
  Bind(NatTrim(<<n[i]>> \o rem), LAMBDA cur :
  Bind(NatDigit(cur, d), LAMBDA q :
    IF Len(quot) >= 0 /\ q = 0
    THEN NatDivModFrom(n, d, i - 1, cur, <<0>> \o quot)
    ELSE NatDivModFrom(n, d, i - 1, NatSub(cur, NatMulSmall(d, q)),
                       <<q>> \o quot)))

\* <<n \div d, n % d>> for d > 0
NatDivMod(n, d) ==
  Bind(15 - IntBitLen(d[Len(d)]), LAMBDA sh :
  Bind(NatShl(n, sh), LAMBDA nn :
  Bind(NatDivModFrom(nn, NatShl(d, sh), Len(nn), << >>, << >>), LAMBDA r :
    <<NatTrim(r[1]), NatShr(r[2], sh)>>)))

RECURSIVE NatSqrtFrom(_, _)
\* Newton's iteration down from an estimate x >= sqrt(n)
NatSqrtFrom(n, x) ==
  Bind(NatShr(NatAdd(x, NatDivMod(n, x)[1]), 1), LAMBDA y :
    IF NatCmp(y, x) < 0 THEN NatSqrtFrom(n, y) ELSE x)

\* the integer square root of n
NatSqrt(n) ==
  IF Len(n) = 0 THEN << >>
  ELSE NatSqrtFrom(n, NatShl(<<1>>, (NatBitLen(n) + 1) \div 2))

(***************************************************************************)
(* IEEE-754 values.  c is "num", "inf" or "nan"; a "num" is                *)
(* (-1)^s * m * 2^e, kept canonical (m odd, or m zero with e = 0) so that  *)
(* two records are equal exactly when the two values have the same bits.   *)
(***************************************************************************)
Num(s, m, e) == [c |-> "num", s |-> s, m |-> m, e |-> e]

Zero(s) == Num(s, << >>, 0)

Inf(s) == [c |-> "inf", s |-> s, m |-> << >>, e |-> 0]

NaN == [c |-> "nan", s |-> 0, m |-> << >>, e |-> 0]

IsNaN(x) == x.c = "nan"

IsZero(x) == x.c = "num" /\ Len(x.m) = 0

IsFinite(x) == x.c = "num"

Canon(s, m, e) ==
  IF Len(m) = 0 THEN Zero(s)
  ELSE Bind(NatTrailingZeros(m), LAMBDA z : Num(s, NatShr(m, z), e + z))

\* (-1)^s * m * 2^e rounded to nearest, ties to even, in the format with p
\* significant bits, least subnormal bit 2^emin and largest leading bit 2^emax
Round(p, emin, emax, s, m, e) ==
  IF Len(m) = 0 THEN Zero(s)
  ELSE
  Bind(NatBitLen(m), LAMBDA L :
  Bind(IF e + L - p > emin THEN e + L - p ELSE emin, LAMBDA q :
    IF q <= e
    THEN (IF e + L - 1 > emax THEN Inf(s) ELSE Canon(s, m, e))
    ELSE
    Bind(NatShr(m, q - e), LAMBDA t :
    Bind(NatCmp(NatSub(m, NatShl(t, q - e)), NatShl(<<1>>, q - e - 1)),
         LAMBDA c :
    Bind(IF c > 0 \/ (c = 0 /\ NatIsOdd(t)) THEN NatAdd(t, <<1>>) ELSE t,
         LAMBDA t2 :
      IF q + NatBitLen(t2) - 1 > emax THEN Inf(s) ELSE Canon(s, t2, q))))))

\* binary64, the JavaScript number
Double(s, m, e) == Round(53, -1074, 1023, s, m, e)

\* a store into a Float32Array element: binary32 rounding of a number
Float32(x) ==
  IF x.c = "num" THEN Round(24, -149, 127, x.s, x.m, x.e) ELSE x

\* the number with integer value n
I(n) == IF n < 0 THEN Canon(1, NatOfInt(-n), 0) ELSE Canon(0, NatOfInt(n), 0)

Neg(x) == IF x.c = "nan" THEN x ELSE [x EXCEPT !.s = 1 - x.s]

Math_abs(x) == IF x.c = "nan" THEN x ELSE [x EXCEPT !.s = 0]

\* x + y
Plus(x, y) ==
  IF x.c = "nan" \/ y.c = "nan" THEN NaN
  ELSE IF x.c = "inf"
       THEN (IF y.c = "inf" /\ y.s # x.s THEN NaN ELSE x)
  ELSE IF y.c = "inf" THEN y
  ELSE IF Len(x.m) = 0
       THEN (IF Len(y.m) = 0 THEN Zero(IF x.s = 1 /\ y.s = 1 THEN 1 ELSE 0)
             ELSE y)
  ELSE IF Len(y.m) = 0 THEN x
  \* an operand below a quarter of the other's last bit does not change it
  ELSE IF (x.e + NatBitLen(x.m)) - (y.e + NatBitLen(y.m)) > 60 THEN x
  ELSE IF (y.e + NatBitLen(y.m)) - (x.e + NatBitLen(x.m)) > 60 THEN y
  ELSE
  Bind(IF x.e < y.e THEN x.e ELSE y.e, LAMBDA e :
  Bind(NatShl(x.m, x.e - e), LAMBDA a :
  Bind(NatShl(y.m, y.e - e), LAMBDA b :
  Bind(NatCmp(a, b), LAMBDA c :
    IF x.s # y.s /\ c = 0 THEN Zero(0)
    ELSE Double(IF x.s = y.s \/ c > 0 THEN x.s ELSE y.s,
                IF x.s = y.s THEN NatAdd(a, b)
                ELSE IF c > 0 THEN NatSub(a, b)
                ELSE NatSub(b, a),
                e)))))

\* x - y
Minus(x, y) == Plus(x, Neg(y))

\* x * y
Times(x, y) ==
  IF x.c = "nan" \/ y.c = "nan" THEN NaN
  ELSE IF x.c = "inf" \/ y.c = "inf"
       THEN (IF IsZero(x) \/ IsZero(y) THEN NaN ELSE Inf((x.s + y.s) % 2))
  ELSE Double((x.s + y.s) % 2, NatMul(x.m, y.m), x.e + y.e)

\* x / y
Over(x, y) ==
  IF x.c = "nan" \/ y.c = "nan" THEN NaN
  ELSE IF x.c = "inf"
       THEN (IF y.c = "inf" THEN NaN ELSE Inf((x.s + y.s) % 2))
  ELSE IF y.c = "inf" THEN Zero((x.s + y.s) % 2)
  ELSE IF Len(y.m) = 0
       THEN (IF Len(x.m) = 0 THEN NaN ELSE Inf((x.s + y.s) % 2))
  ELSE IF Len(x.m) = 0 THEN Zero((x.s + y.s) % 2)
  ELSE
  Bind(IF 56 + NatBitLen(y.m) - NatBitLen(x.m) > 0
       THEN 56 + NatBitLen(y.m) - NatBitLen(x.m) ELSE 0, LAMBDA k :
  Bind(NatDivMod(NatShl(x.m, k), y.m), LAMBDA qr :
    Double((x.s + y.s) % 2,
           NatAdd(NatMulSmall(qr[1], 2),
                  IF Len(qr[2]) = 0 THEN << >> ELSE <<1>>),
           x.e - y.e - k - 1)))

\* Math.sqrt(x)
Math_sqrt(x) ==
  IF x.c = "nan" THEN NaN
  ELSE IF IsZero(x) THEN x
  ELSE IF x.s = 1 THEN NaN
  ELSE IF x.c = "inf" THEN x
  ELSE
  Bind(IF 112 - NatBitLen(x.m) > 0 THEN 112 - NatBitLen(x.m) ELSE 0,
       LAMBDA k0 :
  Bind(IF (x.e - k0) % 2 = 0 THEN k0 ELSE k0 + 1, LAMBDA k :
  Bind(NatShl(x.m, k), LAMBDA n :
  Bind(NatSqrt(n), LAMBDA r :
    Double(0,
           NatAdd(NatMulSmall(r, 2),
                  IF NatCmp(NatMul(r, r), n) = 0 THEN << >> ELSE <<1>>),
           ((x.e - k) \div 2) - 1)))))

\* -1, 0 or 1 as x < y, x = y or x > y, for x and y that are not NaN
Compare(x, y) ==
  Bind(IF IsZero(x) THEN 0 ELSE IF x.s = 1 THEN -1 ELSE 1, LAMBDA sx :
  Bind(IF IsZero(y) THEN 0 ELSE IF y.s = 1 THEN -1 ELSE 1, LAMBDA sy :
    IF sx < sy THEN -1
    ELSE IF sx > sy THEN 1
    ELSE IF sx = 0 THEN 0
    ELSE IF x.c = "inf" THEN (IF y.c = "inf" THEN 0 ELSE sx)
    ELSE IF y.c = "inf" THEN -sx
    ELSE
    Bind(x.e + NatBitLen(x.m), LAMBDA tx :
    Bind(y.e + NatBitLen(y.m), LAMBDA ty :
    Bind(IF x.e < y.e THEN x.e ELSE y.e, LAMBDA e :
      IF tx < ty THEN -sx
      ELSE IF tx > ty THEN sx
      ELSE sx * NatCmp(NatShl(x.m, x.e - e), NatShl(y.m, y.e - e)))))))

\* x === y
StrictEq(x, y) == x.c # "nan" /\ y.c # "nan" /\ Compare(x, y) = 0

\* x > y
Gt(x, y) == x.c # "nan" /\ y.c # "nan" /\ Compare(x, y) > 0

\* x < y
Lt(x, y) == x.c # "nan" /\ y.c # "nan" /\ Compare(x, y) < 0

\* x <= y
Le(x, y) == x.c # "nan" /\ y.c # "nan" /\ Compare(x, y) <= 0

\* the larger of x and y, +0 above -0
Max2(x, y) ==
  Bind(Compare(x, y), LAMBDA c :
    IF c > 0 THEN x ELSE IF c < 0 THEN y ELSE IF x.s = 0 THEN x ELSE y)

\* Math.max(x, y, z)
Math_max(x, y, z) ==
  IF x.c = "nan" \/ y.c = "nan" \/ z.c = "nan" THEN NaN
  ELSE Max2(Max2(x, y), z)

(***************************************************************************)
(* Other JavaScript values: undefined, and arrays of values.               *)
(***************************************************************************)
undefined == [c |-> "undefined"]

Array(elems) == [c |-> "array", a |-> elems]

Array_isArray(p) == p.c = "array"

\* values[i], 0-based, undefined past the end
At(values, i) == IF i + 1 <= Len(values.a) THEN values.a[i + 1] ELSE undefined

\* the numeric conversion of a store into a typed array, and of Number(p)
\* on undefined, a number or an array (the array goes through its string)
Number(p) ==
  IF p.c = "undefined" THEN NaN
  ELSE IF p.c = "array"
       THEN (IF Len(p.a) = 0 THEN Zero(0)
             ELSE IF Len(p.a) > 1 THEN NaN
             ELSE IF p.a[1].c = "undefined" THEN Zero(0)
             ELSE IF IsZero(p.a[1]) THEN Zero(0)
             ELSE p.a[1])
  ELSE p

\* p || 0 for a number p
OrZero(p) == IF IsNaN(p) \/ IsZero(p) THEN Zero(0) ELSE p

\* what an element of a Float32Array holds after "element = v"
Store(v) == Float32(Number(v))

(***************************************************************************)
(* The heap: a sequence of objects, an object's reference is its index.    *)
(* An object is [cls, values]: its class and its _values Float32Array.     *)
(* A method is an operator from a heap and its arguments to [h, ret]: the  *)
(* heap after the call and the returned value.  A dest argument that the   *)
(* caller omits is the reference Omitted.                                  *)
(***************************************************************************)
Omitted == 0

Result(h, ret) == [h |-> h, ret |-> ret]

\* a new object holding a zero-filled Float32Array(n)
Alloc(h, cls, n) == Append(h, [cls |-> cls, values |-> [i \in 1..n |-> Zero(0)]])

SetElem(h, o, i, v) == [h EXCEPT ![o].values[i + 1] = Store(v)]

GetElem(h, o, i) == h[o].values[i + 1]

(***************************************************************************)
(* MathHelper                                                              *)
(***************************************************************************)
EPSILON == Over(I(1), I(100000))

\* MathHelper.clamp as it would be with the upper limit only
MathHelper_clamp_upperOnly(min, max, value) ==
  IF Gt(value, max) THEN max ELSE value

MathHelper_clamp(min, max, value) ==
  Bind(IF Gt(value, max) THEN max ELSE value, LAMBDA value1 :
    IF Lt(value1, min) THEN min ELSE value1)

MathHelper_lerp(min, max, amount) == Plus(min, Times(Minus(max, min), amount))

\* the parameter p, or its default d when the caller omits it
Default(p, d) == IF p.c = "undefined" THEN d ELSE p

\* MathHelper.equals as it would be with a fixed absolute tolerance
MathHelper_equals_absolute(a, b, tolerance0) ==
  Le(Math_abs(Minus(a, b)), Default(tolerance0, EPSILON))

\* MathHelper.equals as it would be with 0 in place of the 1.0 among the
\* magnitudes
MathHelper_equals_relative(a, b, tolerance0) ==
  Le(Math_abs(Minus(a, b)),
     Times(Default(tolerance0, EPSILON),
           Math_max(I(0), Math_abs(a), Math_abs(b))))

MathHelper_equals(a, b, tolerance0) ==
  Le(Math_abs(Minus(a, b)),
     Times(Default(tolerance0, EPSILON),
           Math_max(I(1), Math_abs(a), Math_abs(b))))

(***************************************************************************)
(* Methods.  A method takes the heap h and its arguments and gives the     *)
(* heap it leaves and the reference it returns.  Its statements run in the *)
(* order of the source, each on the heap the one before it left, so that   *)
(* an operand that is also the destination is read as the code reads it.   *)
(***************************************************************************)
\* statements in sequence, each from the heap the one before it left
Do2(h, s1(_), s2(_)) == s2(s1(h))

Do3(h, s1(_), s2(_), s3(_)) == s3(s2(s1(h)))

\* dest, or a new instance when the caller omits it (if (!dest) dest = new ...)
OrNew(dest0, h, created) == IF dest0 = Omitted THEN created ELSE Result(h, dest0)

\* dest, or the receiver when the caller omits it (if (!dest) dest = this)
OrThis(dest0, this) == IF dest0 = Omitted THEN this ELSE dest0

(***************************************************************************)
(* Vector3: accessors and constructor (the destination of Vector2.cross)   *)
(***************************************************************************)
Vector3_x(h, o) == GetElem(h, o, 0)

Vector3_y(h, o) == GetElem(h, o, 1)

Vector3_z(h, o) == GetElem(h, o, 2)

Vector3_xy(h, o) == Array(<<GetElem(h, o, 0), GetElem(h, o, 1)>>)

Vector3_xyz(h, o) ==
  Array(<<GetElem(h, o, 0), GetElem(h, o, 1), GetElem(h, o, 2)>>)

Vector3_set_x(h, o, value) == SetElem(h, o, 0, value)

Vector3_set_y(h, o, value) == SetElem(h, o, 1, value)

Vector3_set_z(h, o, value) == SetElem(h, o, 2, value)

Vector3_set_xy(h, o, values) ==
  Do2(h,
      LAMBDA g : SetElem(g, o, 0, At(values, 0)),
      LAMBDA g : SetElem(g, o, 1, At(values, 1)))

Vector3_set_xyz(h, o, values) ==
  Do3(h,
      LAMBDA g : SetElem(g, o, 0, At(values, 0)),
      LAMBDA g : SetElem(g, o, 1, At(values, 1)),
      LAMBDA g : SetElem(g, o, 2, At(values, 2)))

\* new Vector3(p1, p2, p3)
Vector3_constructor(h, p1, p2, p3) ==
  IF Array_isArray(p1) /\ Len(p1.a) > 3
  THEN Result(Vector3_set_xyz(Alloc(h, "Vector3", 3), Len(h) + 1, p1),
              Len(h) + 1)
  ELSE Result(Vector3_set_xyz(Alloc(h, "Vector3", 3), Len(h) + 1,
                Array(<<OrZero(Number(p1)), OrZero(Number(p2)),
                        OrZero(Number(p3))>>)),
              Len(h) + 1)

(***************************************************************************)
(* Vector2                                                                 *)
(***************************************************************************)
Vector2_x(h, o) == GetElem(h, o, 0)

Vector2_y(h, o) == GetElem(h, o, 1)

Vector2_xy(h, o) == Array(<<GetElem(h, o, 0), GetElem(h, o, 1)>>)

Vector2_set_x(h, o, value) == SetElem(h, o, 0, value)

Vector2_set_y(h, o, value) == SetElem(h, o, 1, value)

Vector2_set_xy(h, o, values) ==
  Do2(h,
      LAMBDA g : SetElem(g, o, 0, At(values, 0)),
      LAMBDA g : SetElem(g, o, 1, At(values, 1)))

\* new Vector2(values)
Vector2_constructor(h, values) ==
  IF values.c # "undefined"
  THEN Result(Vector2_set_xy(Alloc(h, "Vector2", 2), Len(h) + 1, values),
              Len(h) + 1)
  ELSE Result(Vector2_set_xy(Alloc(h, "Vector2", 2), Len(h) + 1,
                Array(<<I(0), I(0)>>)),
              Len(h) + 1)

Vector2_zero(h) == Vector2_constructor(h, Array(<<I(0), I(0)>>))

\* reset() returns nothing
Vector2_reset(h, this) ==
  Result(Do2(h,
        LAMBDA g : Vector2_set_x(g, this, I(0)),
        LAMBDA g : Vector2_set_y(g, this, I(0))),
      undefined)

\* Vector2.cross as it would be if it wrote the z component of dest and
\* left the other two alone
Vector2_cross_zOnly(h, vector, vector2, dest0) ==
  Bind(OrNew(dest0, h,
             Vector3_constructor(h, undefined, undefined, undefined)),
       LAMBDA n :
  Bind(Vector2_x(n.h, vector), LAMBDA x :
  Bind(Vector2_y(n.h, vector), LAMBDA y :
  Bind(Vector2_x(n.h, vector2), LAMBDA x2 :
  Bind(Vector2_y(n.h, vector2), LAMBDA y2 :
  Bind(Minus(Times(x, y2), Times(y, x2)), LAMBDA z :
    Result(Vector3_set_z(n.h, n.ret, z), n.ret)))))))

Vector2_cross(h, vector, vector2, dest0) ==
  Bind(OrNew(dest0, h,
             Vector3_constructor(h, undefined, undefined, undefined)),
       LAMBDA n :
  Bind(Vector2_x(n.h, vector), LAMBDA x :
  Bind(Vector2_y(n.h, vector), LAMBDA y :
  Bind(Vector2_x(n.h, vector2), LAMBDA x2 :
  Bind(Vector2_y(n.h, vector2), LAMBDA y2 :
  Bind(Minus(Times(x, y2), Times(y, x2)), LAMBDA z :
    Result(Vector3_set_xyz(n.h, n.ret, Array(<<I(0), I(0), z>>)),
           n.ret)))))))

Vector2_direction(h, vector, vector2, dest0) ==
  Bind(OrNew(dest0, h, Vector2_constructor(h, undefined)), LAMBDA n :
  Bind(n.ret, LAMBDA dest :
  Bind(Minus(Vector2_x(n.h, vector), Vector2_x(n.h, vector2)), LAMBDA x :
  Bind(Minus(Vector2_y(n.h, vector), Vector2_y(n.h, vector2)), LAMBDA y :
  Bind(Math_sqrt(Plus(Times(x, x), Times(y, y))), LAMBDA length :
    IF StrictEq(length, I(0))
    THEN Result(Vector2_reset(n.h, dest).h, dest)
    ELSE Bind(Over(I(1), length), LAMBDA length1 :
      Result(Do2(n.h,
        LAMBDA g : Vector2_set_x(g, dest, Times(x, length1)),
        LAMBDA g : Vector2_set_y(g, dest, Times(y, length1))),
        dest)))))))

Vector2_lerp(h, a, b, t, dest0) ==
  Bind(OrNew(dest0, h, Vector2_constructor(h, undefined)), LAMBDA n :
  Bind(n.ret, LAMBDA dest :
    Result(Do2(n.h,
        LAMBDA g : Vector2_set_x(g, dest, Plus(Vector2_x(g, a),
               Times(t, Minus(Vector2_x(g, b), Vector2_x(g, a))))),
        LAMBDA g : Vector2_set_y(g, dest, Plus(Vector2_y(g, a),
               Times(t, Minus(Vector2_y(g, b), Vector2_y(g, a)))))),
      dest)))

\* Vector2.sum as it would be if an omitted dest defaulted to the first
\* operand, the way the instance methods default to the receiver
Vector2_sum_intoFirst(h, vector, vector2, dest0) ==
  Bind(OrThis(dest0, vector), LAMBDA dest :
    Result(Do2(h,
        LAMBDA g : Vector2_set_x(g, dest, Plus(Vector2_x(g, vector), Vector2_x(g, vector2))),
        LAMBDA g : Vector2_set_y(g, dest, Plus(Vector2_y(g, vector), Vector2_y(g, vector2)))),
      dest))

Vector2_sum(h, vector, vector2, dest0) ==
  Bind(OrNew(dest0, h, Vector2_constructor(h, undefined)), LAMBDA n :
  Bind(n.ret, LAMBDA dest :
    Result(Do2(n.h,
        LAMBDA g : Vector2_set_x(g, dest, Plus(Vector2_x(g, vector), Vector2_x(g, vector2))),
        LAMBDA g : Vector2_set_y(g, dest, Plus(Vector2_y(g, vector), Vector2_y(g, vector2)))),
      dest)))

Vector2_difference(h, vector, vector2, dest0) ==
  Bind(OrNew(dest0, h, Vector2_constructor(h, undefined)), LAMBDA n :
  Bind(n.ret, LAMBDA dest :
    Result(Do2(n.h,
        LAMBDA g : Vector2_set_x(g, dest, Minus(Vector2_x(g, vector), Vector2_x(g, vector2))),
        LAMBDA g : Vector2_set_y(g, dest, Minus(Vector2_y(g, vector), Vector2_y(g, vector2)))),
      dest)))

Vector2_product(h, vector, vector2, dest0) ==
  Bind(OrNew(dest0, h, Vector2_constructor(h, undefined)), LAMBDA n :
  Bind(n.ret, LAMBDA dest :
    Result(Do2(n.h,
        LAMBDA g : Vector2_set_x(g, dest, Times(Vector2_x(g, vector), Vector2_x(g, vector2))),
        LAMBDA g : Vector2_set_y(g, dest, Times(Vector2_y(g, vector), Vector2_y(g, vector2)))),
      dest)))

Vector2_quotient(h, vector, vector2, dest0) ==
  Bind(OrNew(dest0, h, Vector2_constructor(h, undefined)), LAMBDA n :
  Bind(n.ret, LAMBDA dest :
    Result(Do2(n.h,
        LAMBDA g : Vector2_set_x(g, dest, Over(Vector2_x(g, vector), Vector2_x(g, vector2))),
        LAMBDA g : Vector2_set_y(g, dest, Over(Vector2_y(g, vector), Vector2_y(g, vector2)))),
      dest)))

\* Vector2.copy as it would be if an omitted dest defaulted to the receiver
Vector2_copy_intoSelf(h, this, dest0) ==
  Bind(OrThis(dest0, this), LAMBDA dest :
    Result(Vector2_set_xy(h, dest, Vector2_xy(h, this)), dest))

Vector2_copy(h, this, dest0) ==
  Bind(OrNew(dest0, h, Vector2_constructor(h, undefined)), LAMBDA n :
    Result(Vector2_set_xy(n.h, n.ret, Vector2_xy(n.h, this)), n.ret))

Vector2_negate(h, this, dest0) ==
  Bind(OrThis(dest0, this), LAMBDA dest :
    Result(Do2(h,
        LAMBDA g : Vector2_set_x(g, dest, Neg(Vector2_x(g, this))),
        LAMBDA g : Vector2_set_y(g, dest, Neg(Vector2_y(g, this)))),
      dest))

\* Vector2.equals as it would be if it compared the x components only
Vector2_equals_xOnly(h, this, other, threshold0) ==
  Bind(Default(threshold0, EPSILON), LAMBDA threshold :
    IF Gt(Math_abs(Minus(Vector2_x(h, this), Vector2_x(h, other))),
          threshold)
    THEN FALSE
    ELSE TRUE)

Vector2_equals(h, this, other, threshold0) ==
  Bind(Default(threshold0, EPSILON), LAMBDA threshold :
    IF Gt(Math_abs(Minus(Vector2_x(h, this), Vector2_x(h, other))),
          threshold)
    THEN FALSE
    ELSE     IF Gt(Math_abs(Minus(Vector2_y(h, this), Vector2_y(h, other))),
          threshold)
    THEN FALSE
    ELSE TRUE)

Vector2_squaredLength(h, this) ==
  Bind(Vector2_x(h, this), LAMBDA x :
  Bind(Vector2_y(h, this), LAMBDA y :
    Plus(Times(x, x), Times(y, y))))

Vector2_length(h, this) == Math_sqrt(Vector2_squaredLength(h, this))

Vector2_add(h, this, vector, dest0) ==
  Bind(OrThis(dest0, this), LAMBDA dest :
    Result(Do2(h,
        LAMBDA g : Vector2_set_x(g, dest, Plus(Vector2_x(g, this), Vector2_x(g, vector))),
        LAMBDA g : Vector2_set_y(g, dest, Plus(Vector2_y(g, this), Vector2_y(g, vector)))),
      dest))

Vector2_subtract(h, this, vector, dest0) ==
  Bind(OrThis(dest0, this), LAMBDA dest :
    Result(Do2(h,
        LAMBDA g : Vector2_set_x(g, dest, Minus(Vector2_x(g, this), Vector2_x(g, vector))),
        LAMBDA g : Vector2_set_y(g, dest, Minus(Vector2_y(g, this), Vector2_y(g, vector)))),
      dest))

Vector2_multiply(h, this, vector, dest0) ==
  Bind(OrThis(dest0, this), LAMBDA dest :
    Result(Do2(h,
        LAMBDA g : Vector2_set_x(g, dest, Times(Vector2_x(g, this), Vector2_x(g, vector))),
        LAMBDA g : Vector2_set_y(g, dest, Times(Vector2_y(g, this), Vector2_y(g, vector)))),
      dest))

\* Vector2.divide as it would be with dest.y = this.x / vector.y
Vector2_divide_yFromX(h, this, vector, dest0) ==
  Bind(OrThis(dest0, this), LAMBDA dest :
    Result(Do2(h,
        LAMBDA g : Vector2_set_x(g, dest, Over(Vector2_x(g, this), Vector2_x(g, vector))),
        LAMBDA g : Vector2_set_y(g, dest, Over(Vector2_x(g, this), Vector2_y(g, vector)))),
      dest))

Vector2_divide(h, this, vector, dest0) ==
  Bind(OrThis(dest0, this), LAMBDA dest :
    Result(Do2(h,
        LAMBDA g : Vector2_set_x(g, dest, Over(Vector2_x(g, this), Vector2_x(g, vector))),
        LAMBDA g : Vector2_set_y(g, dest, Over(Vector2_y(g, this), Vector2_y(g, vector)))),
      dest))

Vector2_scale(h, this, value, dest0) ==
  Bind(OrThis(dest0, this), LAMBDA dest :
    Result(Do2(h,
        LAMBDA g : Vector2_set_x(g, dest, Times(Vector2_x(g, this), value)),
        LAMBDA g : Vector2_set_y(g, dest, Times(Vector2_y(g, this), value))),
      dest))

\* Vector2.normalize as it would be without the test for a zero length
Vector2_normalize_unguarded(h, this, dest0) ==
  Bind(OrThis(dest0, this), LAMBDA dest :
  Bind(Vector2_set_xy(h, dest, Vector2_xy(h, this)), LAMBDA h1 :
  Bind(Vector2_length(h1, dest), LAMBDA length :
    IF StrictEq(length, I(1)) THEN Result(h1, dest)
    ELSE Bind(Over(I(1), length), LAMBDA length1 :
      Result(Do2(h1,
        LAMBDA g : Vector2_set_x(g, dest, Times(Vector2_x(g, dest), length1)),
        LAMBDA g : Vector2_set_y(g, dest, Times(Vector2_y(g, dest), length1))),
        dest)))))

Vector2_normalize(h, this, dest0) ==
  Bind(OrThis(dest0, this), LAMBDA dest :
  Bind(Vector2_set_xy(h, dest, Vector2_xy(h, this)), LAMBDA h1 :
  Bind(Vector2_length(h1, dest), LAMBDA length :
    IF StrictEq(length, I(1)) THEN Result(h1, dest)
    ELSE IF StrictEq(length, I(0))
    THEN Result(Vector2_reset(h1, dest).h, dest)
    ELSE Bind(Over(I(1), length), LAMBDA length1 :
      Result(Do2(h1,
        LAMBDA g : Vector2_set_x(g, dest, Times(Vector2_x(g, dest), length1)),
        LAMBDA g : Vector2_set_y(g, dest, Times(Vector2_y(g, dest), length1))),
        dest)))))

(***************************************************************************)
(* Vector3                                                                 *)
(***************************************************************************)
Vector3_zero(h) ==
  Vector3_constructor(h, Array(<<I(0), I(0), I(0)>>), undefined, undefined)

Vector3_one(h) ==
  Vector3_constructor(h, Array(<<I(1), I(1), I(1)>>), undefined, undefined)

Vector3_up(h) ==
  Vector3_constructor(h, Array(<<I(0), I(1), I(0)>>), undefined, undefined)

Vector3_down(h) ==
  Vector3_constructor(h, Array(<<I(0), I(-1), I(0)>>), undefined, undefined)

Vector3_right(h) ==
  Vector3_constructor(h, Array(<<I(1), I(0), I(0)>>), undefined, undefined)

Vector3_left(h) ==
  Vector3_constructor(h, Array(<<I(0), I(1), I(0)>>), undefined, undefined)

Vector3_forward(h) ==
  Vector3_constructor(h, Array(<<I(0), I(0), I(1)>>), undefined, undefined)

Vector3_backward(h) ==
  Vector3_constructor(h, Array(<<I(0), I(0), I(-1)>>), undefined, undefined)

\* reset() returns nothing
Vector3_reset(h, this) ==
  Result(Vector3_set_xyz(h, this, Array(<<I(0), I(0), I(0)>>)), undefined)

\* Vector3.cross as it would be without the locals: every component is
\* read from the operands at the moment it is needed
Vector3_cross_unbuffered(h, vector, vector2, dest0) ==
  Bind(OrNew(dest0, h,
             Vector3_constructor(h, undefined, undefined, undefined)),
       LAMBDA n :
  Bind(n.ret, LAMBDA dest :
    Result(Do3(n.h,
        LAMBDA g : Vector3_set_x(g, dest,
          Minus(Times(Vector3_y(g, vector), Vector3_z(g, vector2)),
                Times(Vector3_z(g, vector), Vector3_y(g, vector2)))),
        LAMBDA g : Vector3_set_y(g, dest,
          Minus(Times(Vector3_z(g, vector), Vector3_x(g, vector2)),
                Times(Vector3_x(g, vector), Vector3_z(g, vector2)))),
        LAMBDA g : Vector3_set_z(g, dest,
          Minus(Times(Vector3_x(g, vector), Vector3_y(g, vector2)),
                Times(Vector3_y(g, vector), Vector3_x(g, vector2))))),
      dest)))

Vector3_cross(h, vector, vector2, dest0) ==
  Bind(OrNew(dest0, h,
             Vector3_constructor(h, undefined, undefined, undefined)),
       LAMBDA n :
  Bind(n.ret, LAMBDA dest :
  Bind(Vector3_x(n.h, vector), LAMBDA x :
  Bind(Vector3_y(n.h, vector), LAMBDA y :
  Bind(Vector3_z(n.h, vector), LAMBDA z :
  Bind(Vector3_x(n.h, vector2), LAMBDA x2 :
  Bind(Vector3_y(n.h, vector2), LAMBDA y2 :
  Bind(Vector3_z(n.h, vector2), LAMBDA z2 :
    Result(Do3(n.h,
        LAMBDA g : Vector3_set_x(g, dest, Minus(Times(y, z2), Times(z, y2))),
        LAMBDA g : Vector3_set_y(g, dest, Minus(Times(z, x2), Times(x, z2))),
        LAMBDA g : Vector3_set_z(g, dest, Minus(Times(x, y2), Times(y, x2)))),
      dest)))))))))

\* Vector3.direction as it would be with the difference taken the other
\* way round, vector2 - vector
Vector3_direction_reversed(h, vector, vector2, dest0) ==
  Bind(OrNew(dest0, h, Vector3_constructor(h, undefined, undefined, undefined)), LAMBDA n :
  Bind(n.ret, LAMBDA dest :
  Bind(Minus(Vector3_x(n.h, vector2), Vector3_x(n.h, vector)), LAMBDA x :
  Bind(Minus(Vector3_y(n.h, vector2), Vector3_y(n.h, vector)), LAMBDA y :
  Bind(Minus(Vector3_z(n.h, vector2), Vector3_z(n.h, vector)), LAMBDA z :
  Bind(Math_sqrt(Plus(Plus(Times(x, x), Times(y, y)), Times(z, z))), LAMBDA length :
    IF StrictEq(length, I(0))
    THEN Result(Do3(n.h,
        LAMBDA g : Vector3_set_x(g, dest, I(0)),
        LAMBDA g : Vector3_set_y(g, dest, I(0)),
        LAMBDA g : Vector3_set_z(g, dest, I(0))), dest)
    ELSE Bind(Over(I(1), length), LAMBDA length1 :
      Result(Do3(n.h,
        LAMBDA g : Vector3_set_x(g, dest, Times(x, length1)),
        LAMBDA g : Vector3_set_y(g, dest, Times(y, length1)),
        LAMBDA g : Vector3_set_z(g, dest, Times(z, length1))),
        dest))))))))

Vector3_direction(h, vector, vector2, dest0) ==
  Bind(OrNew(dest0, h, Vector3_constructor(h, undefined, undefined, undefined)), LAMBDA n :
  Bind(n.ret, LAMBDA dest :
  Bind(Minus(Vector3_x(n.h, vector), Vector3_x(n.h, vector2)), LAMBDA x :
  Bind(Minus(Vector3_y(n.h, vector), Vector3_y(n.h, vector2)), LAMBDA y :
  Bind(Minus(Vector3_z(n.h, vector), Vector3_z(n.h, vector2)), LAMBDA z :
  Bind(Math_sqrt(Plus(Plus(Times(x, x), Times(y, y)), Times(z, z))), LAMBDA length :
    IF StrictEq(length, I(0))
    THEN Result(Do3(n.h,
        LAMBDA g : Vector3_set_x(g, dest, I(0)),
        LAMBDA g : Vector3_set_y(g, dest, I(0)),
        LAMBDA g : Vector3_set_z(g, dest, I(0))), dest)
    ELSE Bind(Over(I(1), length), LAMBDA length1 :
      Result(Do3(n.h,
        LAMBDA g : Vector3_set_x(g, dest, Times(x, length1)),
        LAMBDA g : Vector3_set_y(g, dest, Times(y, length1)),
        LAMBDA g : Vector3_set_z(g, dest, Times(z, length1))),
        dest))))))))

Vector3_lerp(h, a, b, t, dest0) ==
  Bind(OrNew(dest0, h, Vector3_constructor(h, undefined, undefined, undefined)), LAMBDA n :
  Bind(n.ret, LAMBDA dest :
    Result(Do3(n.h,
        LAMBDA g : Vector3_set_x(g, dest, Plus(Vector3_x(g, a),
               Times(t, Minus(Vector3_x(g, b), Vector3_x(g, a))))),
        LAMBDA g : Vector3_set_y(g, dest, Plus(Vector3_y(g, a),
               Times(t, Minus(Vector3_y(g, b), Vector3_y(g, a))))),
        LAMBDA g : Vector3_set_z(g, dest, Plus(Vector3_z(g, a),
               Times(t, Minus(Vector3_z(g, b), Vector3_z(g, a)))))),
      dest)))

Vector3_sum(h, vector, vector2, dest0) ==
  Bind(OrNew(dest0, h, Vector3_constructor(h, undefined, undefined, undefined)), LAMBDA n :
  Bind(n.ret, LAMBDA dest :
    Result(Do3(n.h,
        LAMBDA g : Vector3_set_x(g, dest, Plus(Vector3_x(g, vector), Vector3_x(g, vector2))),
        LAMBDA g : Vector3_set_y(g, dest, Plus(Vector3_y(g, vector), Vector3_y(g, vector2))),
        LAMBDA g : Vector3_set_z(g, dest, Plus(Vector3_z(g, vector), Vector3_z(g, vector2)))),
      dest)))

Vector3_difference(h, vector, vector2, dest0) ==
  Bind(OrNew(dest0, h, Vector3_constructor(h, undefined, undefined, undefined)), LAMBDA n :
  Bind(n.ret, LAMBDA dest :
    Result(Do3(n.h,
        LAMBDA g : Vector3_set_x(g, dest, Minus(Vector3_x(g, vector), Vector3_x(g, vector2))),
        LAMBDA g : Vector3_set_y(g, dest, Minus(Vector3_y(g, vector), Vector3_y(g, vector2))),
        LAMBDA g : Vector3_set_z(g, dest, Minus(Vector3_z(g, vector), Vector3_z(g, vector2)))),
      dest)))

Vector3_product(h, vector, vector2, dest0) ==
  Bind(OrNew(dest0, h, Vector3_constructor(h, undefined, undefined, undefined)), LAMBDA n :
  Bind(n.ret, LAMBDA dest :
    Result(Do3(n.h,
        LAMBDA g : Vector3_set_x(g, dest, Times(Vector3_x(g, vector), Vector3_x(g, vector2))),
        LAMBDA g : Vector3_set_y(g, dest, Times(Vector3_y(g, vector), Vector3_y(g, vector2))),
        LAMBDA g : Vector3_set_z(g, dest, Times(Vector3_z(g, vector), Vector3_z(g, vector2)))),
      dest)))

Vector3_quotient(h, vector, vector2, dest0) ==
  Bind(OrNew(dest0, h, Vector3_constructor(h, undefined, undefined, undefined)), LAMBDA n :
  Bind(n.ret, LAMBDA dest :
    Result(Do3(n.h,
        LAMBDA g : Vector3_set_x(g, dest, Over(Vector3_x(g, vector), Vector3_x(g, vector2))),
        LAMBDA g : Vector3_set_y(g, dest, Over(Vector3_y(g, vector), Vector3_y(g, vector2))),
        LAMBDA g : Vector3_set_z(g, dest, Over(Vector3_z(g, vector), Vector3_z(g, vector2)))),
      dest)))

Vector3_copy(h, this, dest0) ==
  Bind(OrNew(dest0, h, Vector3_constructor(h, undefined, undefined, undefined)), LAMBDA n :
    Result(Vector3_set_xyz(n.h, n.ret, Vector3_xyz(n.h, this)), n.ret))

\* Vector3.negate as it would be if an omitted dest defaulted to a new
\* instance, the way copy does
Vector3_negate_intoNew(h, this, dest0) ==
  Bind(OrNew(dest0, h, Vector3_constructor(h, undefined, undefined, undefined)), LAMBDA n :
  Bind(n.ret, LAMBDA dest :
    Result(Do3(n.h,
        LAMBDA g : Vector3_set_x(g, dest, Neg(Vector3_x(g, this))),
        LAMBDA g : Vector3_set_y(g, dest, Neg(Vector3_y(g, this))),
        LAMBDA g : Vector3_set_z(g, dest, Neg(Vector3_z(g, this)))),
      dest)))

Vector3_negate(h, this, dest0) ==
  Bind(OrThis(dest0, this), LAMBDA dest :
    Result(Do3(h,
        LAMBDA g : Vector3_set_x(g, dest, Neg(Vector3_x(g, this))),
        LAMBDA g : Vector3_set_y(g, dest, Neg(Vector3_y(g, this))),
        LAMBDA g : Vector3_set_z(g, dest, Neg(Vector3_z(g, this)))),
      dest))

Vector3_equals(h, this, other, threshold0) ==
  Bind(Default(threshold0, EPSILON), LAMBDA threshold :
    IF Gt(Math_abs(Minus(Vector3_x(h, this), Vector3_x(h, other))),
          threshold)
    THEN FALSE
    ELSE     IF Gt(Math_abs(Minus(Vector3_y(h, this), Vector3_y(h, other))),
          threshold)
    THEN FALSE
    ELSE     IF Gt(Math_abs(Minus(Vector3_z(h, this), Vector3_z(h, other))),
          threshold)
    THEN FALSE
    ELSE TRUE)

Vector3_squaredLength(h, this) ==
  Bind(Vector3_x(h, this), LAMBDA x :
  Bind(Vector3_y(h, this), LAMBDA y :
  Bind(Vector3_z(h, this), LAMBDA z :
    Plus(Plus(Times(x, x), Times(y, y)), Times(z, z)))))

Vector3_length(h, this) == Math_sqrt(Vector3_squaredLength(h, this))

\* Vector3.add as it would be if an omitted dest defaulted to the argument
Vector3_add_intoArgument(h, this, vector, dest0) ==
  Bind(OrThis(dest0, vector), LAMBDA dest :
    Result(Do3(h,
        LAMBDA g : Vector3_set_x(g, dest, Plus(Vector3_x(g, this), Vector3_x(g, vector))),
        LAMBDA g : Vector3_set_y(g, dest, Plus(Vector3_y(g, this), Vector3_y(g, vector))),
        LAMBDA g : Vector3_set_z(g, dest, Plus(Vector3_z(g, this), Vector3_z(g, vector)))),
      dest))

Vector3_add(h, this, vector, dest0) ==
  Bind(OrThis(dest0, this), LAMBDA dest :
    Result(Do3(h,
        LAMBDA g : Vector3_set_x(g, dest, Plus(Vector3_x(g, this), Vector3_x(g, vector))),
        LAMBDA g : Vector3_set_y(g, dest, Plus(Vector3_y(g, this), Vector3_y(g, vector))),
        LAMBDA g : Vector3_set_z(g, dest, Plus(Vector3_z(g, this), Vector3_z(g, vector)))),
      dest))

Vector3_subtract(h, this, vector, dest0) ==
  Bind(OrThis(dest0, this), LAMBDA dest :
    Result(Do3(h,
        LAMBDA g : Vector3_set_x(g, dest, Minus(Vector3_x(g, this), Vector3_x(g, vector))),
        LAMBDA g : Vector3_set_y(g, dest, Minus(Vector3_y(g, this), Vector3_y(g, vector))),
        LAMBDA g : Vector3_set_z(g, dest, Minus(Vector3_z(g, this), Vector3_z(g, vector)))),
      dest))

Vector3_multiply(h, this, vector, dest0) ==
  Bind(OrThis(dest0, this), LAMBDA dest :
    Result(Do3(h,
        LAMBDA g : Vector3_set_x(g, dest, Times(Vector3_x(g, this), Vector3_x(g, vector))),
        LAMBDA g : Vector3_set_y(g, dest, Times(Vector3_y(g, this), Vector3_y(g, vector))),
        LAMBDA g : Vector3_set_z(g, dest, Times(Vector3_z(g, this), Vector3_z(g, vector)))),
      dest))

Vector3_divide(h, this, vector, dest0) ==
  Bind(OrThis(dest0, this), LAMBDA dest :
    Result(Do3(h,
        LAMBDA g : Vector3_set_x(g, dest, Over(Vector3_x(g, this), Vector3_x(g, vector))),
        LAMBDA g : Vector3_set_y(g, dest, Over(Vector3_y(g, this), Vector3_y(g, vector))),
        LAMBDA g : Vector3_set_z(g, dest, Over(Vector3_z(g, this), Vector3_z(g, vector)))),
      dest))

Vector3_scale(h, this, value, dest0) ==
  Bind(OrThis(dest0, this), LAMBDA dest :
    Result(Do3(h,
        LAMBDA g : Vector3_set_x(g, dest, Times(Vector3_x(g, this), value)),
        LAMBDA g : Vector3_set_y(g, dest, Times(Vector3_y(g, this), value)),
        LAMBDA g : Vector3_set_z(g, dest, Times(Vector3_z(g, this), value))),
      dest))

\* Vector3.normalize as it would be if it divided by the squared length
Vector3_normalize_bySquare(h, this, dest0) ==
  Bind(OrThis(dest0, this), LAMBDA dest :
  Bind(Vector3_set_xyz(h, dest, Vector3_xyz(h, this)), LAMBDA h1 :
  Bind(Vector3_length(h1, dest), LAMBDA length :
    IF StrictEq(length, I(1)) THEN Result(h1, dest)
    ELSE IF StrictEq(length, I(0))
    THEN Result(Vector3_reset(h1, dest).h, dest)
    ELSE Bind(Over(I(1), Vector3_squaredLength(h1, dest)), LAMBDA length1 :
      Result(Do3(h1,
        LAMBDA g : Vector3_set_x(g, dest, Times(Vector3_x(g, dest), length1)),
        LAMBDA g : Vector3_set_y(g, dest, Times(Vector3_y(g, dest), length1)),
        LAMBDA g : Vector3_set_z(g, dest, Times(Vector3_z(g, dest), length1))),
        dest)))))

Vector3_normalize(h, this, dest0) ==
  Bind(OrThis(dest0, this), LAMBDA dest :
  Bind(Vector3_set_xyz(h, dest, Vector3_xyz(h, this)), LAMBDA h1 :
  Bind(Vector3_length(h1, dest), LAMBDA length :
    IF StrictEq(length, I(1)) THEN Result(h1, dest)
    ELSE IF StrictEq(length, I(0))
    THEN Result(Vector3_reset(h1, dest).h, dest)
    ELSE Bind(Over(I(1), length), LAMBDA length1 :
      Result(Do3(h1,
        LAMBDA g : Vector3_set_x(g, dest, Times(Vector3_x(g, dest), length1)),
        LAMBDA g : Vector3_set_y(g, dest, Times(Vector3_y(g, dest), length1)),
        LAMBDA g : Vector3_set_z(g, dest, Times(Vector3_z(g, dest), length1))),
        dest)))))

(***************************************************************************)
(* The caller.  A state is the heap, the budget of calls left and a record *)
(* of the last call: its name, the references passed (a: the receiver or   *)
(* first operand, b: the second operand, dest: the destination or          *)
(* Omitted), the number or array passed (num), the heap before the call    *)
(* (pre), the reference returned (ret) and the value returned (out).       *)
(***************************************************************************)
MaxCalls == 2

Half == Over(I(1), I(2))

\* what the caller passes for t, value, threshold and to the setters
LerpAmounts == {I(0), Half, I(1)}

ScaleValues == {I(2), Neg(Half)}

Thresholds == {undefined, I(0)}

SetValues == {I(7)}

SetArrays2 == {Array(<<I(7), I(8)>>)}

SetArrays3 == {Array(<<I(7), I(8), I(9)>>)}

NewArrays2 == {undefined, Array(<<I(3), I(4)>>), Array(<<I(5)>>)}

NewArgs3 == {<<undefined, undefined, undefined>>,
             <<I(1), I(2), I(2)>>,
             <<Array(<<I(1), I(2), I(3)>>), undefined, undefined>>,
             <<Array(<<I(1), I(2), I(3), I(4)>>), undefined, undefined>>}

V2(h) == {o \in 1..Len(h) : h[o].cls = "Vector2"}

V3(h) == {o \in 1..Len(h) : h[o].cls = "Vector3"}

NoCall == [op |-> "none", a |-> Omitted, b |-> Omitted, dest |-> Omitted,
           num |-> undefined, pre |-> << >>, ret |-> Omitted,
           out |-> undefined]

\* a call that returns a reference (or nothing): r is the method's [h, ret]
Call(op, a, b, dest, num, r) ==
  /\ fuel > 0
  /\ fuel' = fuel - 1
  /\ heap' = r.h
  /\ last' = [op |-> op, a |-> a, b |-> b, dest |-> dest, num |-> num,
              pre |-> heap,
              ret |-> r.ret,
              out |-> undefined]

\* a call that returns a number or a boolean and leaves the heap alone
Query(op, a, b, num, out) ==
  /\ fuel > 0
  /\ fuel' = fuel - 1
  /\ heap' = heap
  /\ last' = [op |-> op, a |-> a, b |-> b, dest |-> Omitted, num |-> num,
              pre |-> heap, ret |-> Omitted, out |-> out]

NewVector2 ==
  \E values \in NewArrays2 :
    Call("new Vector2", Omitted, Omitted, Omitted, values,
         Vector2_constructor(heap, values))

GetVector2_zero ==
  Call("Vector2.zero", Omitted, Omitted, Omitted, undefined, Vector2_zero(heap))

Vector2Cross ==
  \E a \in V2(heap), b \in V2(heap), dest \in {Omitted} \cup V3(heap) :
    Call("Vector2.cross", a, b, dest, undefined, Vector2_cross(heap, a, b, dest))

Vector2Direction ==
  \E a \in V2(heap), b \in V2(heap), dest \in {Omitted} \cup V2(heap) :
    Call("Vector2.direction", a, b, dest, undefined, Vector2_direction(heap, a, b, dest))

Vector2Sum ==
  \E a \in V2(heap), b \in V2(heap), dest \in {Omitted} \cup V2(heap) :
    Call("Vector2.sum", a, b, dest, undefined, Vector2_sum(heap, a, b, dest))

Vector2Difference ==
  \E a \in V2(heap), b \in V2(heap), dest \in {Omitted} \cup V2(heap) :
    Call("Vector2.difference", a, b, dest, undefined, Vector2_difference(heap, a, b, dest))

Vector2Product ==
  \E a \in V2(heap), b \in V2(heap), dest \in {Omitted} \cup V2(heap) :
    Call("Vector2.product", a, b, dest, undefined, Vector2_product(heap, a, b, dest))

Vector2Quotient ==
  \E a \in V2(heap), b \in V2(heap), dest \in {Omitted} \cup V2(heap) :
    Call("Vector2.quotient", a, b, dest, undefined, Vector2_quotient(heap, a, b, dest))

Vector2Lerp ==
  \E a \in V2(heap), b \in V2(heap), t \in LerpAmounts,
     dest \in {Omitted} \cup V2(heap) :
    Call("Vector2.lerp", a, b, dest, t, Vector2_lerp(heap, a, b, t, dest))

Vector2Add ==
  \E this \in V2(heap), vector \in V2(heap),
     dest \in {Omitted} \cup V2(heap) :
    Call("add", this, vector, dest, undefined,
         Vector2_add(heap, this, vector, dest))

Vector2Subtract ==
  \E this \in V2(heap), vector \in V2(heap),
     dest \in {Omitted} \cup V2(heap) :
    Call("subtract", this, vector, dest, undefined,
         Vector2_subtract(heap, this, vector, dest))

Vector2Multiply ==
  \E this \in V2(heap), vector \in V2(heap),
     dest \in {Omitted} \cup V2(heap) :
    Call("multiply", this, vector, dest, undefined,
         Vector2_multiply(heap, this, vector, dest))

Vector2Divide ==
  \E this \in V2(heap), vector \in V2(heap),
     dest \in {Omitted} \cup V2(heap) :
    Call("divide", this, vector, dest, undefined,
         Vector2_divide(heap, this, vector, dest))

Vector2Copy ==
  \E this \in V2(heap), dest \in {Omitted} \cup V2(heap) :
    Call("copy", this, Omitted, dest, undefined, Vector2_copy(heap, this, dest))

Vector2Negate ==
  \E this \in V2(heap), dest \in {Omitted} \cup V2(heap) :
    Call("negate", this, Omitted, dest, undefined, Vector2_negate(heap, this, dest))

Vector2Normalize ==
  \E this \in V2(heap), dest \in {Omitted} \cup V2(heap) :
    Call("normalize", this, Omitted, dest, undefined, Vector2_normalize(heap, this, dest))

Vector2Scale ==
  \E this \in V2(heap), value \in ScaleValues,
     dest \in {Omitted} \cup V2(heap) :
    Call("scale", this, Omitted, dest, value,
         Vector2_scale(heap, this, value, dest))

Vector2Reset ==
  \E this \in V2(heap) :
    Call("reset", this, Omitted, Omitted, undefined,
         Result(Vector2_reset(heap, this).h, Omitted))

Vector2Equals ==
  \E this \in V2(heap), other \in V2(heap), threshold \in Thresholds :
    Query("equals", this, other, threshold,
          Vector2_equals(heap, this, other, threshold))

Vector2Length ==
  \E this \in V2(heap) :
    Query("length", this, Omitted, undefined, Vector2_length(heap, this))

Vector2Set_x ==
  \E this \in V2(heap), value \in SetValues :
    Call("set x", this, Omitted, Omitted, value,
         Result(Vector2_set_x(heap, this, value), Omitted))

Vector2Set_y ==
  \E this \in V2(heap), value \in SetValues :
    Call("set y", this, Omitted, Omitted, value,
         Result(Vector2_set_y(heap, this, value), Omitted))

Vector2Set_xy ==
  \E this \in V2(heap), values \in SetArrays2 :
    Call("set xy", this, Omitted, Omitted, values,
         Result(Vector2_set_xy(heap, this, values), Omitted))

NewVector3 ==
  \E p \in NewArgs3 :
    Call("new Vector3", Omitted, Omitted, Omitted, Array(p),
         Vector3_constructor(heap, p[1], p[2], p[3]))

GetVector3_zero ==
  Call("Vector3.zero", Omitted, Omitted, Omitted, undefined, Vector3_zero(heap))

GetVector3_one ==
  Call("Vector3.one", Omitted, Omitted, Omitted, undefined, Vector3_one(heap))

GetVector3_up ==
  Call("Vector3.up", Omitted, Omitted, Omitted, undefined, Vector3_up(heap))

GetVector3_down ==
  Call("Vector3.down", Omitted, Omitted, Omitted, undefined, Vector3_down(heap))

GetVector3_right ==
  Call("Vector3.right", Omitted, Omitted, Omitted, undefined, Vector3_right(heap))

GetVector3_left ==
  Call("Vector3.left", Omitted, Omitted, Omitted, undefined, Vector3_left(heap))

GetVector3_forward ==
  Call("Vector3.forward", Omitted, Omitted, Omitted, undefined, Vector3_forward(heap))

GetVector3_backward ==
  Call("Vector3.backward", Omitted, Omitted, Omitted, undefined, Vector3_backward(heap))

Vector3Cross ==
  \E a \in V3(heap), b \in V3(heap), dest \in {Omitted} \cup V3(heap) :
    Call("Vector3.cross", a, b, dest, undefined, Vector3_cross(heap, a, b, dest))

Vector3Direction ==
  \E a \in V3(heap), b \in V3(heap), dest \in {Omitted} \cup V3(heap) :
    Call("Vector3.direction", a, b, dest, undefined, Vector3_direction(heap, a, b, dest))

Vector3Sum ==
  \E a \in V3(heap), b \in V3(heap), dest \in {Omitted} \cup V3(heap) :
    Call("Vector3.sum", a, b, dest, undefined, Vector3_sum(heap, a, b, dest))

Vector3Difference ==
  \E a \in V3(heap), b \in V3(heap), dest \in {Omitted} \cup V3(heap) :
    Call("Vector3.difference", a, b, dest, undefined, Vector3_difference(heap, a, b, dest))

Vector3Product ==
  \E a \in V3(heap), b \in V3(heap), dest \in {Omitted} \cup V3(heap) :
    Call("Vector3.product", a, b, dest, undefined, Vector3_product(heap, a, b, dest))

Vector3Quotient ==
  \E a \in V3(heap), b \in V3(heap), dest \in {Omitted} \cup V3(heap) :
    Call("Vector3.quotient", a, b, dest, undefined, Vector3_quotient(heap, a, b, dest))

Vector3Lerp ==
  \E a \in V3(heap), b \in V3(heap), t \in LerpAmounts,
     dest \in {Omitted} \cup V3(heap) :
    Call("Vector3.lerp", a, b, dest, t, Vector3_lerp(heap, a, b, t, dest))

Vector3Add ==
  \E this \in V3(heap), vector \in V3(heap),
     dest \in {Omitted} \cup V3(heap) :
    Call("add", this, vector, dest, undefined,
         Vector3_add(heap, this, vector, dest))

Vector3Subtract ==
  \E this \in V3(heap), vector \in V3(heap),
     dest \in {Omitted} \cup V3(heap) :
    Call("subtract", this, vector, dest, undefined,
         Vector3_subtract(heap, this, vector, dest))

Vector3Multiply ==
  \E this \in V3(heap), vector \in V3(heap),
     dest \in {Omitted} \cup V3(heap) :
    Call("multiply", this, vector, dest, undefined,
         Vector3_multiply(heap, this, vector, dest))

Vector3Divide ==
  \E this \in V3(heap), vector \in V3(heap),
     dest \in {Omitted} \cup V3(heap) :
    Call("divide", this, vector, dest, undefined,
         Vector3_divide(heap, this, vector, dest))

Vector3Copy ==
  \E this \in V3(heap), dest \in {Omitted} \cup V3(heap) :
    Call("copy", this, Omitted, dest, undefined, Vector3_copy(heap, this, dest))

Vector3Negate ==
  \E this \in V3(heap), dest \in {Omitted} \cup V3(heap) :
    Call("negate", this, Omitted, dest, undefined, Vector3_negate(heap, this, dest))

Vector3Normalize ==
  \E this \in V3(heap), dest \in {Omitted} \cup V3(heap) :
    Call("normalize", this, Omitted, dest, undefined, Vector3_normalize(heap, this, dest))

Vector3Scale ==
  \E this \in V3(heap), value \in ScaleValues,
     dest \in {Omitted} \cup V3(heap) :
    Call("scale", this, Omitted, dest, value,
         Vector3_scale(heap, this, value, dest))

Vector3Reset ==
  \E this \in V3(heap) :
    Call("reset", this, Omitted, Omitted, undefined,
         Result(Vector3_reset(heap, this).h, Omitted))

Vector3Equals ==
  \E this \in V3(heap), other \in V3(heap), threshold \in Thresholds :
    Query("equals", this, other, threshold,
          Vector3_equals(heap, this, other, threshold))

Vector3Length ==
  \E this \in V3(heap) :
    Query("length", this, Omitted, undefined, Vector3_length(heap, this))

Vector3Set_x ==
  \E this \in V3(heap), value \in SetValues :
    Call("set x", this, Omitted, Omitted, value,
         Result(Vector3_set_x(heap, this, value), Omitted))

Vector3Set_y ==
  \E this \in V3(heap), value \in SetValues :
    Call("set y", this, Omitted, Omitted, value,
         Result(Vector3_set_y(heap, this, value), Omitted))

Vector3Set_z ==
  \E this \in V3(heap), value \in SetValues :
    Call("set z", this, Omitted, Omitted, value,
         Result(Vector3_set_z(heap, this, value), Omitted))

Vector3Set_xy ==
  \E this \in V3(heap), values \in SetArrays2 :
    Call("set xy", this, Omitted, Omitted, values,
         Result(Vector3_set_xy(heap, this, values), Omitted))

Vector3Set_xyz ==
  \E this \in V3(heap), values \in SetArrays3 :
    Call("set xyz", this, Omitted, Omitted, values,
         Result(Vector3_set_xyz(heap, this, values), Omitted))

Next ==
  \/ NewVector2
  \/ GetVector2_zero
  \/ Vector2Cross
  \/ Vector2Direction
  \/ Vector2Sum
  \/ Vector2Difference
  \/ Vector2Product
  \/ Vector2Quotient
  \/ Vector2Lerp
  \/ Vector2Add
  \/ Vector2Subtract
  \/ Vector2Multiply
  \/ Vector2Divide
  \/ Vector2Copy
  \/ Vector2Negate
  \/ Vector2Normalize
  \/ Vector2Scale
  \/ Vector2Reset
  \/ Vector2Equals
  \/ Vector2Length
  \/ Vector2Set_x
  \/ Vector2Set_y
  \/ Vector2Set_xy
  \/ NewVector3
  \/ GetVector3_zero
  \/ GetVector3_one
  \/ GetVector3_up
  \/ GetVector3_down
  \/ GetVector3_right
  \/ GetVector3_left
  \/ GetVector3_forward
  \/ GetVector3_backward
  \/ Vector3Cross
  \/ Vector3Direction
  \/ Vector3Sum
  \/ Vector3Difference
  \/ Vector3Product
  \/ Vector3Quotient
  \/ Vector3Lerp
  \/ Vector3Add
  \/ Vector3Subtract
  \/ Vector3Multiply
  \/ Vector3Divide
  \/ Vector3Copy
  \/ Vector3Negate
  \/ Vector3Normalize
  \/ Vector3Scale
  \/ Vector3Reset
  \/ Vector3Equals
  \/ Vector3Length
  \/ Vector3Set_x
  \/ Vector3Set_y
  \/ Vector3Set_z
  \/ Vector3Set_xy
  \/ Vector3Set_xyz

\* the pool the caller starts from: two vectors of each class
BasePool ==
  LET a == Vector2_constructor(<< >>, Array(<<I(3), I(4)>>)).h
      b == Vector2_constructor(a, Array(<<I(1), I(2)>>)).h
      c == Vector3_constructor(b, I(1), I(2), I(3)).h
  IN  Vector3_constructor(c, I(4), I(5), I(6)).h

Init ==
  /\ heap = BasePool
  /\ last = NoCall
  /\ fuel = MaxCalls

Spec == Init /\ [][Next]_vars


(***************************************************************************)
(* A second caller: one call on a pool built from a wide range of          *)
(* components.  The numbers are the doubles the caller writes; the         *)
(* constructor narrows them to single precision, so 0.1 is stored rounded, *)
(* 1e39 is stored as Infinity and a missing element as NaN.                *)
(***************************************************************************)
InputCalls == 1

Tiny == Double(0, <<1>>, -149)

Nudge == Double(0, <<1>>, -18)

Huge == Times(Times(I(1000000000), I(1000000000)),
              Times(Times(I(1000000000), I(1000000000)), I(1000)))

\* 2^100, which single precision holds exactly
Big == Double(0, <<1>>, 100)

Components == {I(0), Zero(1), I(1), I(3), Neg(I(4)), Over(I(1), I(10)), Tiny,
               Big, Huge, undefined}

ThirdComponents == {I(0), Neg(I(4))}

\* the second vector of each class: equal to the first, far from it, near
\* it, or the first with x and y exchanged
Seconds == {"same", "far", "near", "swapped"}

InputPool(x, y, z, kind) ==
  LET x2 == IF kind = "far" THEN I(1)
            ELSE IF kind = "near" /\ x # undefined THEN Plus(x, Nudge)
            ELSE IF kind = "swapped" THEN y
            ELSE x
      y2 == IF kind = "far" THEN I(2)
            ELSE IF kind = "swapped" THEN x
            ELSE y
      z2 == IF kind = "far" THEN I(2) ELSE z
      a  == Vector2_constructor(<< >>, Array(<<x, y>>)).h
      b  == Vector2_constructor(a, Array(<<x2, y2>>)).h
      c  == Vector3_constructor(b, Array(<<x, y, z, I(0)>>),
                                undefined, undefined).h
  IN  Vector3_constructor(c, Array(<<x2, y2, z2, I(0)>>),
                          undefined, undefined).h

InitInputs ==
  /\ \E x \in Components, y \in Components, z \in ThirdComponents,
        kind \in Seconds : heap = InputPool(x, y, z, kind)
  /\ last = NoCall
  /\ fuel = InputCalls

SpecInputs == InitInputs /\ [][Next]_vars

(***************************************************************************)
(* A third caller: the scalar helpers of MathHelper, which keep no state.  *)
(***************************************************************************)
Million == I(1000000)

\* the literal 1000000.00001
MillionAndABit ==
  Over(Plus(Times(Million, I(100000)), I(1)), I(100000))

\* the literals 0.0000001, 0.0000021 and 0.0000201
TenthOfMillionth == Over(I(1), I(10000000))

TwentyOneTenthsOfMillionth == Over(I(21), I(10000000))

TwoHundredOneTenthsOfMillionth == Over(I(201), I(10000000))

MillionAndOne == I(1000001)

Scalars == {I(0), Half, I(1), Neg(I(2)), Million, MillionAndABit,
            MillionAndOne,
            TenthOfMillionth, TwentyOneTenthsOfMillionth,
            TwoHundredOneTenthsOfMillionth, Inf(0), NaN}

Tolerances == {undefined, I(0), Half}

LerpScalars == {I(0), I(1), Neg(I(2)), Million}

MathEquals ==
  \E a \in Scalars, b \in Scalars, tolerance \in Tolerances :
    Query("MathHelper.equals", Omitted, Omitted, <<a, b, tolerance>>,
          MathHelper_equals(a, b, tolerance))

\* amounts inside and outside [0, 1]
MathAmounts == LerpAmounts \cup {I(2), Neg(I(1))}

MathLerp ==
  \E min \in LerpScalars, max \in LerpScalars, amount \in MathAmounts :
    Query("MathHelper.lerp", Omitted, Omitted, <<min, max, amount>>,
          MathHelper_lerp(min, max, amount))

\* values inside, outside and on the limits, and the numbers that are not
\* finite
ClampValues == LerpScalars \cup {Half, Inf(0), Inf(1), NaN}

MathClamp ==
  \E min \in LerpScalars, max \in LerpScalars, value \in ClampValues :
    Query("MathHelper.clamp", Omitted, Omitted, <<min, max, value>>,
          MathHelper_clamp(min, max, value))

NextMath ==
  \/ MathEquals
  \/ MathLerp
  \/ MathClamp

InitMath ==
  /\ heap = << >>
  /\ last = NoCall
  /\ fuel = MaxCalls

SpecMath == InitMath /\ [][NextMath]_vars


(***************************************************************************)
(* A fourth caller: one interpolation, of two vectors of the wide pool or  *)
(* of two scalars.                                                         *)
(***************************************************************************)
NextLerp ==
  \/ Vector2Lerp
  \/ Vector3Lerp
  \/ MathLerp

SpecLerp == InitInputs /\ [][NextLerp]_vars

(***************************************************************************)
(* Properties of the destination convention                                *)
(***************************************************************************)
StaticOps == {"sum", "difference", "product", "quotient", "lerp",
              "direction", "cross"}

FreeOps == {"Vector2." \o m : m \in StaticOps} \cup
           {"Vector3." \o m : m \in StaticOps}

InstanceOps == {"add", "subtract", "multiply", "divide"}

\* what a binary instance operation computes from one pair of components
Combine(op, x, y) ==
  IF op = "add" THEN Plus(x, y)
  ELSE IF op = "subtract" THEN Minus(x, y)
  ELSE IF op = "multiply" THEN Times(x, y)
  ELSE Over(x, y)

\* C1: a free binary operation called without dest returns an instance that
\* did not exist before the call, distinct from both operands, and leaves
\* the components of both operands as they were, whatever calls came before.
C1_FreeOpAllocates ==
  (last.op \in FreeOps /\ last.dest = Omitted) =>
    /\ last.ret \in (1..Len(heap)) \ (1..Len(last.pre))
    /\ last.ret # last.a
    /\ last.ret # last.b
    /\ heap[last.a].values = last.pre[last.a].values
    /\ heap[last.b].values = last.pre[last.b].values

\* a free operation without dest whose first operand is itself the result
\* of an earlier call
C1_Witness ==
  /\ last.op \in FreeOps
  /\ last.dest = Omitted
  /\ last.a > Len(BasePool)
  /\ last.b # last.a

\* C2: a.add(b), a.subtract(b), a.multiply(b) and a.divide(b) without dest
\* return the receiver, allocate nothing, and leave in the receiver the
\* component-wise result of the components a and b had before the call.
C2_InstanceOpInPlace ==
  (last.op \in InstanceOps /\ last.dest = Omitted) =>
    /\ last.ret = last.a
    /\ Len(heap) = Len(last.pre)
    /\ \A i \in DOMAIN heap[last.a].values :
         heap[last.a].values[i] =
           Float32(Combine(last.op, last.pre[last.a].values[i],
                           last.pre[last.b].values[i]))

\* a.divide(b) without dest on distinct instances, which changed a
C2_Witness ==
  /\ last.op = "divide"
  /\ last.dest = Omitted
  /\ last.a # last.b
  /\ heap[last.a].values # last.pre[last.a].values

\* the object a binary operation writes its result to; Omitted when it
\* allocates one
Target ==
  IF last.dest # Omitted THEN last.dest
  ELSE IF last.op \in InstanceOps THEN last.a
  ELSE Omitted

\* C3 as stated: a binary operation leaves b (and, when free, a) as it was
\* for every choice of dest, dest being an operand included.
C3_OperandsNeverMutated ==
  (last.op \in FreeOps \cup InstanceOps) =>
    /\ heap[last.b].values = last.pre[last.b].values
    /\ last.op \in FreeOps => heap[last.a].values = last.pre[last.a].values

\* C3 amended: a binary operation leaves b (and, when free, a) as it was
\* for every choice of dest, unless that operand is itself the object the
\* result is written to (the dest supplied, or the receiver of an instance
\* operation called without dest).
C3_OperandsKeptUnlessTarget ==
  (last.op \in FreeOps \cup InstanceOps) =>
    /\ last.b # Target => heap[last.b].values = last.pre[last.b].values
    /\ (last.op \in FreeOps /\ last.a # Target) =>
         heap[last.a].values = last.pre[last.a].values

\* a free operation whose dest is its first operand: a is overwritten, b
\* is a different instance
C3_Witness ==
  /\ last.op \in FreeOps
  /\ last.dest = last.a
  /\ last.b # last.a
  /\ heap[last.a].values # last.pre[last.a].values

\* the components the last binary call produces when it is made on the
\* heap of before the call with a newly constructed destination
FreshResult ==
  LET h  == last.pre
      a  == last.a
      b  == last.b
      n2 == Vector2_constructor(h, undefined)
      n3 == Vector3_constructor(h, undefined, undefined, undefined)
      r  == CASE last.op = "Vector2.cross" -> Vector2_cross(h, a, b, Omitted)
             [] last.op = "Vector2.direction" ->
                  Vector2_direction(h, a, b, Omitted)
             [] last.op = "Vector2.lerp" ->
                  Vector2_lerp(h, a, b, last.num, Omitted)
             [] last.op = "Vector2.sum" -> Vector2_sum(h, a, b, Omitted)
             [] last.op = "Vector2.difference" ->
                  Vector2_difference(h, a, b, Omitted)
             [] last.op = "Vector2.product" ->
                  Vector2_product(h, a, b, Omitted)
             [] last.op = "Vector2.quotient" ->
                  Vector2_quotient(h, a, b, Omitted)
             [] last.op = "Vector3.cross" -> Vector3_cross(h, a, b, Omitted)
             [] last.op = "Vector3.direction" ->
                  Vector3_direction(h, a, b, Omitted)
             [] last.op = "Vector3.lerp" ->
                  Vector3_lerp(h, a, b, last.num, Omitted)
             [] last.op = "Vector3.sum" -> Vector3_sum(h, a, b, Omitted)
             [] last.op = "Vector3.difference" ->
                  Vector3_difference(h, a, b, Omitted)
             [] last.op = "Vector3.product" ->
                  Vector3_product(h, a, b, Omitted)
             [] last.op = "Vector3.quotient" ->
                  Vector3_quotient(h, a, b, Omitted)
             [] last.op = "add" /\ h[a].cls = "Vector2" ->
                  Vector2_add(n2.h, a, b, n2.ret)
             [] last.op = "subtract" /\ h[a].cls = "Vector2" ->
                  Vector2_subtract(n2.h, a, b, n2.ret)
             [] last.op = "multiply" /\ h[a].cls = "Vector2" ->
                  Vector2_multiply(n2.h, a, b, n2.ret)
             [] last.op = "divide" /\ h[a].cls = "Vector2" ->
                  Vector2_divide(n2.h, a, b, n2.ret)
             [] last.op = "add" /\ h[a].cls = "Vector3" ->
                  Vector3_add(n3.h, a, b, n3.ret)
             [] last.op = "subtract" /\ h[a].cls = "Vector3" ->
                  Vector3_subtract(n3.h, a, b, n3.ret)
             [] last.op = "multiply" /\ h[a].cls = "Vector3" ->
                  Vector3_multiply(n3.h, a, b, n3.ret)
             [] last.op = "divide" /\ h[a].cls = "Vector3" ->
                  Vector3_divide(n3.h, a, b, n3.ret)
  IN  r.h[r.ret].values

\* C4: when the destination of a binary operation is one of its operands,
\* the destination ends with exactly the components the same call gives
\* with a fresh destination on the values of before the call; a.add(a) and
\* a.add(a, a) leave a at twice its value of before the call.
C4_AliasedDestination ==
  /\ (last.op \in FreeOps \cup InstanceOps /\ Target \in {last.a, last.b}) =>
       heap[Target].values = FreshResult
  /\ (last.op = "add" /\ last.b = last.a /\ Target = last.a) =>
       \A i \in DOMAIN heap[last.a].values :
         heap[last.a].values[i] =
           Float32(Times(I(2), last.pre[last.a].values[i]))

\* Vector3.cross(a, b, b) on distinct instances, which changed b
C4_Witness ==
  /\ last.op = "Vector3.cross"
  /\ last.dest = last.b
  /\ last.a # last.b
  /\ heap[last.b].values # last.pre[last.b].values

(***************************************************************************)
(* Properties of normalize, direction and equals                           *)
(***************************************************************************)
\* the object an instance operation writes its result to
Destination == IF last.dest # Omitted THEN last.dest ELSE last.a

\* the components of the receiver before the call
Receiver == last.pre[last.a].values

\* the components of the second operand before the call
Argument == last.pre[last.b].values

\* the Euclidean length of a sequence of two or three components
Norm(v) ==
  IF Len(v) = 2
  THEN Math_sqrt(Plus(Times(v[1], v[1]), Times(v[2], v[2])))
  ELSE Math_sqrt(Plus(Plus(Times(v[1], v[1]), Times(v[2], v[2])),
                      Times(v[3], v[3])))

IsZeroVector(v) == \A i \in DOMAIN v : IsZero(v[i])

IsFiniteVector(v) == \A i \in DOMAIN v : IsFinite(v[i])

\* C5: normalize on a receiver whose length is exactly 0 leaves the zero
\* vector in the destination (no NaN, no Infinity), and on a receiver whose
\* length is exactly 1 leaves in the destination the components of the
\* receiver unchanged; the destination is the receiver when dest is omitted
\* and dest otherwise, and it is the instance returned.
C5_NormalizeDegenerate ==
  last.op = "normalize" =>
    /\ last.ret = Destination
    /\ StrictEq(Norm(Receiver), I(0)) =>
         IsZeroVector(heap[Destination].values)
    /\ StrictEq(Norm(Receiver), I(1)) =>
         heap[Destination].values = Receiver

\* a zero vector normalized into a distinct instance that was not zero
C5_Witness ==
  /\ last.op = "normalize"
  /\ last.dest # Omitted
  /\ last.dest # last.a
  /\ StrictEq(Norm(Receiver), I(0))
  /\ ~ IsZeroVector(last.pre[last.dest].values)
  /\ IsZeroVector(heap[last.dest].values)

DirectionOps == {"Vector2.direction", "Vector3.direction"}

\* a - b, component by component, on the values of before the call
Separation == [i \in DOMAIN Receiver |-> Minus(Receiver[i], Argument[i])]

\* the destination holds a - b scaled by 1/|a - b|, or the zero vector
\* when |a - b| is exactly 0
DirectionStored ==
  /\ last.ret = (IF last.dest # Omitted THEN last.dest ELSE Len(heap))
  /\ IF StrictEq(Norm(Separation), I(0))
     THEN IsZeroVector(heap[last.ret].values)
     ELSE \A i \in DOMAIN Separation :
            heap[last.ret].values[i] =
              Float32(Times(Separation[i], Over(I(1), Norm(Separation))))

\* C6 as stated: direction(a, b, dest?) stores a - b scaled by 1/|a - b|,
\* the zero vector when |a - b| is exactly 0, and in particular the zero
\* vector for direction(a, a), whatever a is.
C6_DirectionFromBToA ==
  last.op \in DirectionOps =>
    /\ DirectionStored
    /\ last.a = last.b => IsZeroVector(heap[last.ret].values)

\* C6 amended: direction(a, b, dest?) stores a - b scaled by 1/|a - b|,
\* the zero vector when |a - b| is exactly 0, and in particular the zero
\* vector for direction(a, a) when the components of a are finite.
C6_DirectionFromBToAFinite ==
  last.op \in DirectionOps =>
    /\ DirectionStored
    /\ (last.a = last.b /\ IsFiniteVector(Receiver)) =>
         IsZeroVector(heap[last.ret].values)

\* a direction between two distinct points whose first component is a
\* negative number: a is left of b
C6_Witness ==
  /\ last.op \in DirectionOps
  /\ last.a # last.b
  /\ IsFiniteVector(heap[last.ret].values)
  /\ Lt(heap[last.ret].values[1], I(0))
  /\ Lt(Receiver[1], Argument[1])

\* the length of r is within EPSILON of 1, every component of r has the
\* sign of the same component of v (a component that underflows becomes a
\* zero of that sign), and the components of r are in the ratios of those
\* of v: r[i] * v[j] and r[j] * v[i] differ by at most EPSILON * |v|
IsUnitAlong(r, v) ==
  /\ Le(Math_abs(Minus(Norm(r), I(1))), EPSILON)
  /\ \A i \in DOMAIN v : r[i].s = v[i].s
  /\ \A i \in DOMAIN v : \A j \in DOMAIN v :
       Le(Math_abs(Minus(Times(r[i], v[j]), Times(r[j], v[i]))),
          Times(EPSILON, Norm(v)))

\* C7 as stated: v.normalize() on any vector that is not the zero vector
\* gives a vector of length within EPSILON of 1 with the ratios and signs
\* of the components of v.
C7_NormalizeUnit ==
  (last.op = "normalize" /\ ~ IsZeroVector(Receiver)) =>
    IsUnitAlong(heap[Destination].values, Receiver)

\* C7 amended: v.normalize() on any vector with finite components that is
\* not the zero vector gives a vector of length within EPSILON of 1 with
\* the ratios and signs of the components of v.
C7_NormalizeUnitFinite ==
  (last.op = "normalize" /\ ~ IsZeroVector(Receiver)
     /\ IsFiniteVector(Receiver)) =>
    IsUnitAlong(heap[Destination].values, Receiver)

\* a finite three-component vector with a negative component, normalized
\* in place, whose components changed
C7_Witness ==
  /\ last.op = "normalize"
  /\ last.dest = Omitted
  /\ Len(Receiver) = 3
  /\ IsFiniteVector(Receiver)
  /\ \E i \in DOMAIN Receiver : Lt(Receiver[i], I(0))
  /\ heap[last.a].values # Receiver

\* |a_i - b_i| for each pair of components of before the call
Gaps == [i \in DOMAIN Receiver |-> Math_abs(Minus(Receiver[i], Argument[i]))]

\* the threshold a call of equals uses
Threshold == Default(last.num, EPSILON)

\* C8 as stated: a.equals(b, threshold) is true exactly when every paired
\* component has |a_i - b_i| <= threshold (EPSILON when omitted); v.equals(v)
\* is true for every v and every threshold >= 0; neither vector changes.
C8_EqualsWithinThreshold ==
  last.op = "equals" =>
    /\ last.out = (\A i \in DOMAIN Gaps : Le(Gaps[i], Threshold))
    /\ (last.a = last.b /\ Le(I(0), Threshold)) => last.out = TRUE
    /\ heap = last.pre

\* C8 amended: a.equals(b, threshold) is true exactly when no paired
\* component has |a_i - b_i| > threshold (EPSILON when omitted), so that a
\* pair whose difference is NaN does not make it false; v.equals(v) is true
\* for every v and every threshold >= 0; neither vector changes.
C8_EqualsUnlessBeyondThreshold ==
  last.op = "equals" =>
    /\ last.out = (~ \E i \in DOMAIN Gaps : Gt(Gaps[i], Threshold))
    /\ (last.a = last.b /\ Le(I(0), Threshold)) => last.out = TRUE
    /\ heap = last.pre

\* two distinct instances with different components that are equal at the
\* default threshold
C8_Witness ==
  /\ last.op = "equals"
  /\ last.a # last.b
  /\ last.num = undefined
  /\ Receiver # Argument
  /\ last.out = TRUE

(***************************************************************************)
(* Properties of MathHelper.equals                                         *)
(***************************************************************************)
\* the arguments of the last call of MathHelper.equals
EqualsA == last.num[1]

EqualsB == last.num[2]

EqualsTolerance == Default(last.num[3], EPSILON)

\* the larger of two magnitudes
Larger(x, y) == IF Gt(x, y) THEN x ELSE y

\* C9: MathHelper.equals(a, b, tolerance) is true exactly when |a - b| is
\* at most tolerance (EPSILON when omitted) if both magnitudes are at most
\* 1, and at most tolerance times the larger magnitude otherwise; and it
\* gives the same answer with a and b exchanged.
C9_EqualsAbsoluteOrRelative ==
  last.op = "MathHelper.equals" =>
    /\ last.out =
         (IF Le(Math_abs(EqualsA), I(1)) /\ Le(Math_abs(EqualsB), I(1))
          THEN Le(Math_abs(Minus(EqualsA, EqualsB)), EqualsTolerance)
          ELSE Le(Math_abs(Minus(EqualsA, EqualsB)),
                  Times(EqualsTolerance,
                        Larger(Math_abs(EqualsA), Math_abs(EqualsB)))))
    /\ last.out = MathHelper_equals(EqualsB, EqualsA, last.num[3])

\* two finite numbers of magnitude above 1 that are equal at the default
\* tolerance although they differ by more than EPSILON
C9_Witness ==
  /\ last.op = "MathHelper.equals"
  /\ last.num[3] = undefined
  /\ IsFinite(EqualsA)
  /\ IsFinite(EqualsB)
  /\ Gt(Math_abs(EqualsA), I(1))
  /\ Gt(Math_abs(EqualsB), I(1))
  /\ Gt(Math_abs(Minus(EqualsA, EqualsB)), EPSILON)
  /\ last.out = TRUE

\* C10 as stated: at the default tolerance equals(1000000.0, 1000000.00001)
\* is true and equals(0.0000001, 0.0000021) is false.
C10_LiteralCases ==
  last.op = "MathHelper.equals" =>
    /\ last.num = <<Million, MillionAndABit, undefined>> => last.out = TRUE
    /\ last.num = <<TenthOfMillionth, TwentyOneTenthsOfMillionth, undefined>>
         => last.out = FALSE

\* C10 amended: at the default tolerance equals(1000000.0, 1000000.00001)
\* is true and equals(0.0000001, 0.0000021) is true as well.
C10_LiteralCasesBothTrue ==
  last.op = "MathHelper.equals" =>
    /\ last.num = <<Million, MillionAndABit, undefined>> => last.out = TRUE
    /\ last.num = <<TenthOfMillionth, TwentyOneTenthsOfMillionth, undefined>>
         => last.out = TRUE

\* the call equals(0.0000001, 0.0000021) at the default tolerance: true,
\* although the arguments differ by more than EPSILON times the larger
C10_Witness ==
  /\ last.op = "MathHelper.equals"
  /\ last.num = <<TenthOfMillionth, TwentyOneTenthsOfMillionth, undefined>>
  /\ Gt(Math_abs(Minus(EqualsA, EqualsB)),
        Times(EPSILON, Larger(Math_abs(EqualsA), Math_abs(EqualsB))))
  /\ last.out = TRUE

(***************************************************************************)
(* Properties of cross, the constructors, copy and the unary operations    *)
(***************************************************************************)
\* the same number: identical, or both a zero (0 and -0 are one number)
SameNumber(x, y) == x = y \/ (IsZero(x) /\ IsZero(y))

CrossOps == {"Vector2.cross", "Vector3.cross"}

\* the cross product of a and b as the two classes define it, stored in
\* single precision
CrossProduct(a, b) ==
  IF Len(a) = 2
  THEN <<I(0), I(0), Float32(Minus(Times(a[1], b[2]), Times(a[2], b[1])))>>
  ELSE <<Float32(Minus(Times(a[2], b[3]), Times(a[3], b[2]))),
         Float32(Minus(Times(a[3], b[1]), Times(a[1], b[3]))),
         Float32(Minus(Times(a[1], b[2]), Times(a[2], b[1])))>>

\* the components the same cross gives with the operands exchanged
CrossExchanged ==
  IF last.op = "Vector2.cross"
  THEN Bind(Vector2_cross(last.pre, last.b, last.a, Omitted),
            LAMBDA r : r.h[r.ret].values)
  ELSE Bind(Vector3_cross(last.pre, last.b, last.a, Omitted),
            LAMBDA r : r.h[r.ret].values)

\* C11: Vector2.cross returns a Vector3 holding (0, 0, a.x*b.y - a.y*b.x),
\* all three components of a supplied dest being overwritten; Vector3.cross
\* returns (a.y*b.z - a.z*b.y, a.z*b.x - a.x*b.z, a.x*b.y - a.y*b.x); the
\* cross of (1,0) and (0,1) and the cross of (1,0,0) and (0,1,0) are
\* (0,0,1); cross(a, b) is the component-wise negation of cross(b, a).
C11_CrossProduct ==
  last.op \in CrossOps =>
    /\ last.ret = (IF last.dest # Omitted THEN last.dest ELSE Len(heap))
    /\ heap[last.ret].cls = "Vector3"
    /\ heap[last.ret].values = CrossProduct(Receiver, Argument)
    /\ (Receiver = <<I(1), I(0)>> /\ Argument = <<I(0), I(1)>>) =>
         heap[last.ret].values = <<I(0), I(0), I(1)>>
    /\ (Receiver = <<I(1), I(0), I(0)>> /\ Argument = <<I(0), I(1), I(0)>>) =>
         heap[last.ret].values = <<I(0), I(0), I(1)>>
    /\ \A i \in 1..3 :
         SameNumber(heap[last.ret].values[i], Neg(CrossExchanged[i]))

\* Vector2.cross of two vectors that are not parallel, written into a
\* Vector3 whose x component was not zero
C11_Witness ==
  /\ last.op = "Vector2.cross"
  /\ last.dest # Omitted
  /\ ~ IsZero(last.pre[last.dest].values[1])
  /\ IsZero(heap[last.dest].values[1])
  /\ IsFinite(heap[last.dest].values[3])
  /\ ~ IsZero(heap[last.dest].values[3])

\* the components each named constant of Vector3 is documented to hold
Documented(op) ==
  CASE op = "Vector3.zero" -> <<I(0), I(0), I(0)>>
    [] op = "Vector3.one" -> <<I(1), I(1), I(1)>>
    [] op = "Vector3.up" -> <<I(0), I(1), I(0)>>
    [] op = "Vector3.down" -> <<I(0), Neg(I(1)), I(0)>>
    [] op = "Vector3.right" -> <<I(1), I(0), I(0)>>
    [] op = "Vector3.forward" -> <<I(0), I(0), I(1)>>
    [] op = "Vector3.backward" -> <<I(0), I(0), Neg(I(1))>>

NamedConstants == {"Vector3.zero", "Vector3.one", "Vector3.up", "Vector3.down",
                   "Vector3.right", "Vector3.forward", "Vector3.backward"}

\* C12: new Vector3([x, y, z]) holds the components (x, y, z), and each of
\* zero, one, up, down, right, forward, backward returns a new instance
\* holding its documented components.
C12_ConstructedComponents ==
  /\ (last.op = "new Vector3" /\ Array_isArray(last.num.a[1])
        /\ Len(last.num.a[1].a) = 3) =>
       heap[last.ret].values =
         [i \in 1..3 |-> Float32(last.num.a[1].a[i])]
  /\ last.op \in NamedConstants =>
       /\ last.ret = Len(last.pre) + 1
       /\ Len(heap) = Len(last.pre) + 1
       /\ \A i \in 1..3 :
            SameNumber(heap[last.ret].values[i], Documented(last.op)[i])

\* the operations that change their receiver when called without dest
InPlaceOps == InstanceOps \cup {"negate", "scale", "normalize"}

\* the operations that have no dest and always change their receiver
SetterOps == {"set x", "set y", "set z", "set xy", "set xyz", "reset"}

\* every instance that existed before the call, other than o, is as it was
OthersKept(o) ==
  /\ Len(heap) >= Len(last.pre)
  /\ \A q \in 1..Len(last.pre) : q # o => heap[q] = last.pre[q]

\* v.equals(w) at the default threshold, for the class of v
EqualsNow(v, w) ==
  IF heap[v].cls = "Vector2"
  THEN Vector2_equals(heap, v, w, undefined)
  ELSE Vector3_equals(heap, v, w, undefined)

\* C13: v.copy() without dest returns an instance that did not exist
\* before, of the class of v, with the components of v, equal to v by
\* equals, and leaves v and every other instance as they were; v.copy(dest)
\* writes the components of v into dest and returns dest; and a setter,
\* reset, or an in-place add, subtract, multiply, divide, negate, scale or
\* normalize changes no instance but its receiver, so that whatever is
\* later done to a copy leaves the original as it was, and the other way
\* round.
C13_CopyIsIndependent ==
  /\ (last.op = "copy" /\ last.dest = Omitted) =>
       /\ last.ret = Len(last.pre) + 1
       /\ Len(heap) = Len(last.pre) + 1
       /\ heap[last.ret].cls = last.pre[last.a].cls
       /\ heap[last.ret].values = Receiver
       /\ OthersKept(last.ret)
       /\ EqualsNow(last.ret, last.a)
  /\ (last.op = "copy" /\ last.dest # Omitted) =>
       /\ last.ret = last.dest
       /\ heap[last.dest].values = Receiver
       /\ OthersKept(last.dest)
  /\ ((last.op \in InPlaceOps /\ last.dest = Omitted)
        \/ last.op \in SetterOps) =>
       /\ Len(heap) = Len(last.pre)
       /\ OthersKept(last.a)

\* an instance made by the call before, holding the components of one of
\* the first instances, changed in place while that instance keeps them
C13_Witness ==
  /\ last.op \in InPlaceOps \cup SetterOps
  /\ last.dest = Omitted
  /\ last.a > Len(BasePool)
  /\ heap[last.a].values # Receiver
  /\ \E v \in 1..Len(BasePool) :
       /\ heap[v].cls = heap[last.a].cls
       /\ heap[v].values = Receiver

UnaryOps == {"negate", "scale", "normalize"}

\* what a unary operation computes from the components v (and the scalar
\* k of scale)
UnaryResult(op, v, k) ==
  IF op = "negate" THEN [i \in DOMAIN v |-> Neg(v[i])]
  ELSE IF op = "scale" THEN [i \in DOMAIN v |-> Float32(Times(v[i], k))]
  ELSE IF StrictEq(Norm(v), I(1)) THEN v
  ELSE IF StrictEq(Norm(v), I(0)) THEN [i \in DOMAIN v |-> I(0)]
  ELSE [i \in DOMAIN v |-> Float32(Times(v[i], Over(I(1), Norm(v))))]

\* C14: negate, scale and normalize without dest leave their result in the
\* receiver and return it; with dest they leave it in dest and return dest,
\* the receiver keeping its components when dest is another instance; they
\* allocate nothing and change no third instance.  reset sets every
\* component of its receiver to 0 and changes no other instance.
C14_UnaryDefaultsToSelf ==
  /\ last.op \in UnaryOps =>
       /\ last.ret = Destination
       /\ last.dest = Omitted => last.ret = last.a
       /\ heap[Destination].values = UnaryResult(last.op, Receiver, last.num)
       /\ Len(heap) = Len(last.pre)
       /\ OthersKept(Destination)
  /\ last.op = "reset" =>
       /\ \A i \in DOMAIN Receiver : heap[last.a].values[i] = I(0)
       /\ Len(heap) = Len(last.pre)
       /\ OthersKept(last.a)

\* scale into another instance: dest changed, the receiver did not
C14_Witness ==
  /\ last.op = "scale"
  /\ last.dest # Omitted
  /\ last.dest # last.a
  /\ IsFiniteVector(Receiver)
  /\ heap[last.dest].values # last.pre[last.dest].values
  /\ heap[last.dest].values # Receiver
  /\ heap[last.a].values = Receiver

LerpOps == {"Vector2.lerp", "Vector3.lerp"}

\* C15: lerp(a, b, 0) has the components of a, lerp(a, b, 1) those of b and
\* lerp(a, b, 0.5) the midpoints (a_i + b_i)/2, for all vectors a and b of
\* either class; MathHelper.lerp(min, max, amount) is
\* min + amount*(max - min), and for min < max it lies above max when
\* amount > 1 and below min when amount < 0.
C15_LerpEndpoints ==
  /\ last.op \in LerpOps =>
       /\ last.num = I(0) =>
            \A i \in DOMAIN Receiver :
              SameNumber(heap[last.ret].values[i], Receiver[i])
       /\ last.num = I(1) =>
            \A i \in DOMAIN Receiver :
              SameNumber(heap[last.ret].values[i], Argument[i])
       /\ last.num = Half =>
            \A i \in DOMAIN Receiver :
              SameNumber(heap[last.ret].values[i],
                         Float32(Over(Plus(Receiver[i], Argument[i]), I(2))))
  /\ last.op = "MathHelper.lerp" =>
       /\ last.out = Plus(last.num[1],
                          Times(last.num[3], Minus(last.num[2], last.num[1])))
       /\ (Lt(last.num[1], last.num[2]) /\ Gt(last.num[3], I(1))) =>
            Gt(last.out, last.num[2])
       /\ (Lt(last.num[1], last.num[2]) /\ Lt(last.num[3], I(0))) =>
            Lt(last.out, last.num[1])

(***************************************************************************)
(* Properties of MathHelper.clamp                                          *)
(***************************************************************************)
ClampMin == last.num[1]

ClampMax == last.num[2]

ClampValue == last.num[3]

\* the result is value restricted to [min, max], and clamping it again
\* gives it back
ClampRestricts ==
  /\ Le(ClampMin, last.out)
  /\ Le(last.out, ClampMax)
  /\ (Le(ClampMin, ClampValue) /\ Le(ClampValue, ClampMax)) =>
       last.out = ClampValue
  /\ Lt(ClampValue, ClampMin) => last.out = ClampMin
  /\ Gt(ClampValue, ClampMax) => last.out = ClampMax
  /\ MathHelper_clamp(ClampMin, ClampMax, last.out) = last.out

\* C16 as stated: for min <= max and every value, clamp(min, max, value) is
\* value restricted to [min, max] and clamp is idempotent.
C16_ClampEveryValue ==
  (last.op = "MathHelper.clamp" /\ Le(ClampMin, ClampMax)) => ClampRestricts

\* C16 amended: for min <= max and every value that is not NaN,
\* clamp(min, max, value) is value restricted to [min, max] and clamp is
\* idempotent.
C16_ClampEveryNumber ==
  (last.op = "MathHelper.clamp" /\ Le(ClampMin, ClampMax)
     /\ ~ IsNaN(ClampValue)) => ClampRestricts

\* a value below a range that is not a single point, raised to its minimum
C16_Witness ==
  /\ last.op = "MathHelper.clamp"
  /\ Lt(ClampMin, ClampMax)
  /\ Lt(ClampValue, ClampMin)
  /\ last.out = ClampMin

=============================================================================
